---- MODULE Spec2Model ----
(***************************************************************************)
(* Model of the GTS entity registry (packages/shared/src/registry.ts):     *)
(* the six index maps of JsonRegistry, file ingestion and invalidation,    *)
(* and the two-wave validation pass of validateEntities/validateEntity.    *)
(*                                                                         *)
(* JavaScript Maps keep insertion order, so a Map is a sequence of         *)
(* [k, v] entries.  An entity object is identified by its path, its        *)
(* position in the file and its generation: 0 when the latest              *)
(* processFileContent of its path created it, 1 when an earlier one did.   *)
(* The mutable validation field of an entity is the function validation.   *)
(***************************************************************************)
EXTENDS Naturals, Integers, Sequences, FiniteSets, TLC

(***************************************************************************)
(* Bounds                                                                  *)
(***************************************************************************)
\* files per ingestFiles call
MaxBatch == 2
\* elements of a file whose content is an array
MaxElems == 2
\* fetchJson calls since construction or the latest reset
MaxCalls == 3

\* the validateOpenDocument calls made for the open document
MaxOpenCalls == 2

(***************************************************************************)
(* Insertion-ordered Map                                                   *)
(***************************************************************************)
MapHas(m, k) == \E i \in DOMAIN m : m[i].k = k

MapGet(m, k) == m[CHOOSE i \in DOMAIN m : m[i].k = k].v

MapSet(m, k, v) ==
  IF MapHas(m, k)
  THEN [i \in DOMAIN m |-> IF m[i].k = k THEN [k |-> k, v |-> v] ELSE m[i]]
  ELSE Append(m, [k |-> k, v |-> v])

MapDelete(m, k) == SelectSeq(m, LAMBDA e : e.k # k)

MapKeys(m) == {m[i].k : i \in DOMAIN m}

MapValues(m) == [i \in DOMAIN m |-> m[i].v]

Range(s) == {s[i] : i \in DOMAIN s}

(***************************************************************************)
(* Inputs: paths, identifiers, file contents                               *)
(***************************************************************************)
\* a path is its sequence of segments
PathA == <<"a.json">>
PathB == <<"dir", "b.json">>
PathT == <<".gts-viewer", "t.json">>
Paths == {PathA, PathB, PathT}

\* /(^|[\\\/])\.gts-viewer[\\\/]/ : a segment .gts-viewer followed by a separator
IsToolingPath(p) == \E i \in 1..(Len(p) - 1) : p[i] = ".gts-viewer"

\* listSequence of an entity whose file content is not an array
Undefined == -1

\* sourcePath "root" and "a.b[0]", character by character
SourceRoot == <<"r", "o", "o", "t">>
SourceNested == <<"a", ".", "b", "[", "0", "]">>

Digits == {"0", "1", "2", "3", "4", "5", "6", "7", "8", "9"}

\* what the configuration reports for one element of a file's content
Elem(gts, throws, kind, id, schemaId, gtsRefs) ==
  [gts |-> gts, throws |-> throws, kind |-> kind, id |-> id,
   schemaId |-> schemaId, gtsRefs |-> gtsRefs]

SchemaX == Elem(TRUE, FALSE, "schema", "x", "", <<[id |-> "z", sourcePath |-> SourceRoot]>>)
ObjX == Elem(TRUE, FALSE, "obj", "x", "", <<>>)
ObjY == Elem(TRUE, FALSE, "obj", "y", "x", <<[id |-> "z", sourcePath |-> SourceNested]>>)
ObjZ == Elem(TRUE, FALSE, "obj", "z", "", <<>>)
NonGts == Elem(FALSE, FALSE, "obj", "", "", <<>>)
\* an element for which createEntity raises
Throwing == Elem(FALSE, TRUE, "obj", "", "", <<>>)

\* the elements that are the whole content of a file
Elements == {SchemaX, ObjY, ObjZ, NonGts}

\* content that failed to parse upstream (raw text)
RawText == [valid |-> FALSE, isArray |-> FALSE, elems |-> <<>>]

\* the elements that the arrays of the model are made of
ArrayElements == {ObjX, Throwing}

Arrays == UNION {[1..n -> ArrayElements] : n \in 0..MaxElems}

Contents ==
  {RawText}
  \cup {[valid |-> TRUE, isArray |-> FALSE, elems |-> <<e>>] : e \in Elements}
  \cup {[valid |-> TRUE, isArray |-> TRUE, elems |-> a] : a \in Arrays}

VARIABLES
  jsonObjs,         \* Map id -> entity
  jsonSchemas,      \* Map id -> entity
  jsonFiles,        \* Map path -> file
  invalidFiles,     \* Map path -> file
  jsonFileObjs,     \* Map path -> sequence of entities
  jsonFileSchemas,  \* Map path -> sequence of entities
  validation,       \* entity -> its validation field
  restricted,       \* the host forbids dynamic code generation
  pc,               \* position of the ingestFiles call in flight, or "idle"
  remaining,        \* files of the batch not yet visited by the loop
  todo,             \* entities the current wave has still to validate
  inflight,         \* entities whose validateEntity is suspended in compileAsync
  call,             \* bookkeeping of the current or last ingestFiles call
  last,             \* what the latest processFileContent was given and did
  fetchCache,       \* Map key -> promise (the number of its retrieval)
  retrievals,       \* the retrievals started by fetch(key), and their states
  fetchCalls,       \* the fetchJson calls made, and the promise each received
  defaultFilePath,  \* the default file path, or Null
  document,         \* the document that validateOpenDocument is validating
  surfaced,         \* the errors that validateOpenDocument collected for it
  diagnostics,      \* diagnosticCollection: Map uri -> diagnostics
  shown,            \* what the latest update of diagnosticCollection was given
  liveText,         \* document.getText() of the open document, as it is now
  openCalls,        \* the validateOpenDocument calls for it, in their order
  located,          \* the latest findErrorPosition call and what it returned
  first,            \* the first findErrorPosition call and what it returned
  regexLastIndex    \* lastIndex of the RegExp object that exec was last called on

\* the state of fetchJson
fetchVars == <<fetchCache, retrievals, fetchCalls>>

\* the state of validateOpenDocument
openVars == <<document, surfaced>>

\* the state of the diagnostics of the editor
diagnosticVars == <<diagnostics, shown>>

\* the open document and the validateOpenDocument calls in flight for it
overlapVars == <<liveText, openCalls>>

\* the state around the locator
locatorVars == <<located, first, regexLastIndex>>

\* the state of the editor extension
editorVars == <<openVars, diagnosticVars, locatorVars, overlapVars>>

\* the state outside of ingestion and validation
auxVars == <<fetchVars, defaultFilePath, editorVars>>

vars == <<jsonObjs, jsonSchemas, jsonFiles, invalidFiles, jsonFileObjs,
          jsonFileSchemas, validation, restricted, pc, remaining,
          todo, inflight, call, last, auxVars>>

Registry ==
  [jsonObjs |-> jsonObjs, jsonSchemas |-> jsonSchemas, jsonFiles |-> jsonFiles,
   invalidFiles |-> invalidFiles, jsonFileObjs |-> jsonFileObjs,
   jsonFileSchemas |-> jsonFileSchemas]

EmptyRegistry ==
  [jsonObjs |-> <<>>, jsonSchemas |-> <<>>, jsonFiles |-> <<>>,
   invalidFiles |-> <<>>, jsonFileObjs |-> <<>>, jsonFileSchemas |-> <<>>]

(***************************************************************************)
(* Entities                                                                *)
(***************************************************************************)
\* new JsonFile(path, name, content): the object and its validity flag
JsonFile(path, content) == [path |-> path, gen |-> 0, valid |-> content.valid]

\* createEntity({file, listSequence, content, cfg})
createEntity(file, seq, elem) ==
  [id |-> elem.id, kind |-> elem.kind, path |-> file.path, gen |-> file.gen,
   listSequence |-> seq, schemaId |-> elem.schemaId, gtsRefs |-> elem.gtsRefs,
   gts |-> elem.gts]

isGtsEntity(entity) == entity.gts

\* normalizeToArray(content)
normalizeToArray(content) == content.elems

(***************************************************************************)
(* invalidateFile                                                          *)
(***************************************************************************)
RECURSIVE DeleteIds(_, _)
\* for (const e of list) map.delete(e.id)
DeleteIds(m, list) ==
  IF list = <<>> THEN m
  ELSE DeleteIds(MapDelete(m, Head(list).id), Tail(list))

\* ResetList that leaves the old list in place
ResetListKeeps(m, path) == m

\* map.delete(path); map.set(path, []) when the path is a key
ResetList(m, path) ==
  IF MapHas(m, path) THEN MapSet(MapDelete(m, path), path, <<>>) ELSE m

\* invalidateFile without its loop over the schemas of the path
invalidateFileSkipsSchemas(R, path) ==
  [jsonFiles |-> MapDelete(R.jsonFiles, path),
   invalidFiles |-> MapDelete(R.invalidFiles, path),
   jsonObjs |-> IF MapHas(R.jsonFileObjs, path)
                THEN DeleteIds(R.jsonObjs, MapGet(R.jsonFileObjs, path))
                ELSE R.jsonObjs,
   jsonFileObjs |-> ResetList(R.jsonFileObjs, path),
   jsonSchemas |-> R.jsonSchemas,
   jsonFileSchemas |-> ResetList(R.jsonFileSchemas, path)]

\* invalidateFile that leaves the path in jsonFiles
invalidateFileKeepsJsonFile(R, path) ==
  [jsonFiles |-> R.jsonFiles,
   invalidFiles |-> MapDelete(R.invalidFiles, path),
   jsonObjs |-> IF MapHas(R.jsonFileObjs, path)
                THEN DeleteIds(R.jsonObjs, MapGet(R.jsonFileObjs, path))
                ELSE R.jsonObjs,
   jsonFileObjs |-> ResetList(R.jsonFileObjs, path),
   jsonSchemas |-> IF MapHas(R.jsonFileSchemas, path)
                   THEN DeleteIds(R.jsonSchemas, MapGet(R.jsonFileSchemas, path))
                   ELSE R.jsonSchemas,
   jsonFileSchemas |-> ResetList(R.jsonFileSchemas, path)]

invalidateFile(R, path) ==
  [jsonFiles |-> MapDelete(R.jsonFiles, path),
   invalidFiles |-> MapDelete(R.invalidFiles, path),
   jsonObjs |-> IF MapHas(R.jsonFileObjs, path)
                THEN DeleteIds(R.jsonObjs, MapGet(R.jsonFileObjs, path))
                ELSE R.jsonObjs,
   jsonFileObjs |-> ResetList(R.jsonFileObjs, path),
   jsonSchemas |-> IF MapHas(R.jsonFileSchemas, path)
                   THEN DeleteIds(R.jsonSchemas, MapGet(R.jsonFileSchemas, path))
                   ELSE R.jsonSchemas,
   jsonFileSchemas |-> ResetList(R.jsonFileSchemas, path)]

(***************************************************************************)
(* processFileContent                                                      *)
(***************************************************************************)
\* this.jsonFileX.set(path, [...this.jsonFileX.get(path) || [], entity])
AppendToList(m, path, entity) ==
  MapSet(m, path, (IF MapHas(m, path) THEN MapGet(m, path) ELSE <<>>) \o <<entity>>)

\* the body of the forEach callback for an element that qualifies
IndexEntity(R, path, entity) ==
  IF entity.kind = "schema"
  THEN [R EXCEPT !.jsonSchemas = MapSet(@, entity.id, entity),
                 !.jsonFileSchemas = AppendToList(@, path, entity)]
  ELSE [R EXCEPT !.jsonObjs = MapSet(@, entity.id, entity),
                 !.jsonFileObjs = AppendToList(@, path, entity)]

RECURSIVE ExtractEntities(_, _, _, _, _)
\* entities.forEach(...): the registry after the elements from idx on, whether
\* a GTS entity was found, and whether createEntity raised
ExtractEntities(R, file, content, idx, hasGtsEntities) ==
  LET entities == normalizeToArray(content) IN
  IF idx > Len(entities)
  THEN [reg |-> R, hasGtsEntities |-> hasGtsEntities, raised |-> FALSE]
  ELSE IF entities[idx].throws
       THEN [reg |-> R, hasGtsEntities |-> hasGtsEntities, raised |-> TRUE]
       ELSE LET seq == IF content.isArray THEN idx - 1 ELSE Undefined
                entity == createEntity(file, seq, entities[idx])
            IN IF isGtsEntity(entity)
               THEN ExtractEntities(IndexEntity(R, file.path, entity), file,
                                    content, idx + 1, TRUE)
               ELSE ExtractEntities(R, file, content, idx + 1, hasGtsEntities)

\* StoreJsonFile that registers the file whether or not an entity was found
StoreJsonFileAlways(x, jsonFile) ==
  IF x.raised
  THEN [reg |-> x.reg, raised |-> TRUE]
  ELSE [reg |-> IF ~MapHas(x.reg.jsonFiles, jsonFile.path)
                THEN [x.reg EXCEPT !.jsonFiles = MapSet(@, jsonFile.path, jsonFile)]
                ELSE x.reg,
        raised |-> FALSE]

\* if (hasGtsEntities && !this.jsonFiles.has(path)) this.jsonFiles.set(path, jsonFile);
\* x is what the forEach left
StoreJsonFile(x, jsonFile) ==
  IF x.raised
  THEN [reg |-> x.reg, raised |-> TRUE]
  ELSE [reg |-> IF x.hasGtsEntities /\ ~MapHas(x.reg.jsonFiles, jsonFile.path)
                THEN [x.reg EXCEPT !.jsonFiles = MapSet(@, jsonFile.path, jsonFile)]
                ELSE x.reg,
        raised |-> FALSE]

\* ProcessCleaned that returns on invalid content without recording the file
ProcessCleanedDropsInvalid(R1, jsonFile, content) ==
  IF ~jsonFile.valid
  THEN [reg |-> R1, raised |-> FALSE]
  ELSE StoreJsonFile(ExtractEntities(R1, jsonFile, content, 1, FALSE), jsonFile)

\* processFileContent after its call of invalidateFile, which left R1
ProcessCleaned(R1, jsonFile, content) ==
  IF ~jsonFile.valid
  THEN [reg |-> [R1 EXCEPT !.invalidFiles = MapSet(@, jsonFile.path, jsonFile)],
        raised |-> FALSE]
  ELSE StoreJsonFile(ExtractEntities(R1, jsonFile, content, 1, FALSE), jsonFile)

\* the registry after processFileContent, and whether it raised
processFileContent(R, path, content) ==
  ProcessCleaned(invalidateFile(R, path), JsonFile(path, content), content)


(***************************************************************************)
(* validateEntity                                                          *)
(***************************************************************************)
Error(keyword, instancePath, message, params) ==
  [keyword |-> keyword, instancePath |-> instancePath, schemaPath |-> <<"#">>,
   message |-> message, params |-> params]

RECURSIVE ReplaceDots(_)
\* sourcePath.replace(/\./g, '/')
ReplaceDots(s) ==
  IF s = <<>> THEN <<>>
  ELSE <<IF Head(s) = "." THEN "/" ELSE Head(s)>> \o ReplaceDots(Tail(s))

\* length of the run of digits that starts at s[i]
RECURSIVE DigitRun(_, _)
DigitRun(s, i) ==
  IF i <= Len(s) /\ s[i] \in Digits THEN 1 + DigitRun(s, i + 1) ELSE 0

RECURSIVE ReplaceIndices(_)
\* .replace(/\[(\d+)\]/g, '/$1')
ReplaceIndices(s) ==
  IF s = <<>> THEN <<>>
  ELSE LET n == DigitRun(s, 2) IN
       IF Head(s) = "[" /\ n > 0 /\ n + 2 <= Len(s) /\ s[n + 2] = "]"
       THEN <<"/">> \o SubSeq(s, 2, n + 1) \o ReplaceIndices(SubSeq(s, n + 3, Len(s)))
       ELSE <<Head(s)>> \o ReplaceIndices(Tail(s))

\* the instancePath of a missing reference
RefInstancePath(sourcePath) ==
  IF sourcePath = SourceRoot THEN <<"/">>
  ELSE <<"/">> \o ReplaceIndices(ReplaceDots(sourcePath))

RefError(ref) ==
  Error("", RefInstancePath(ref.sourcePath), <<"GTS reference not found: ", ref.id>>,
        [gtsId |-> ref.id, sourcePath |-> ref.sourcePath])

\* this.jsonSchemas.has(ref.id) || this.jsonObjs.has(ref.id)
refExists(R, id) == MapHas(R.jsonSchemas, id) \/ MapHas(R.jsonObjs, id)

RECURSIVE RefErrors(_, _)
\* the errors that the loop over entity.gtsRefs pushes, in order
RefErrors(R, refs) ==
  IF refs = <<>> THEN <<>>
  ELSE (IF refExists(R, Head(refs).id) THEN <<>> ELSE <<RefError(Head(refs))>>)
       \o RefErrors(R, Tail(refs))

\* this.jsonSchemas.get(schemaId): <<schema>>, or <<>> for undefined
resolveSchema(R, schemaId) ==
  IF MapHas(R.jsonSchemas, schemaId) THEN <<MapGet(R.jsonSchemas, schemaId)>> ELSE <<>>

SchemaNotFoundError(schemaId) ==
  Error("schema", <<>>, <<"Schema not found: ", schemaId>>, [schemaId |-> schemaId])

\* InvalidSchemaError without the failure text of the compiler
InvalidSchemaErrorNoText(text) ==
  Error("schema", <<>>, <<"Invalid JSON Schema: ">>, [error |-> text])

InvalidSchemaError(text) ==
  Error("schema", <<>>, <<"Invalid JSON Schema: ", text>>, [error |-> text])

ValidationThrewError(text) ==
  Error("validation", <<>>, <<"Validation error: ", text>>, [error |-> text])

\* raw errors of the schema-validation engine
RawRequired ==
  [keyword |-> "required", instancePath |-> <<>>, schemaPath |-> <<"#", "/", "required">>,
   message |-> <<"must have required property 'id'">>,
   params |-> [missingProperty |-> "id"]]
RawMinLength ==
  [keyword |-> "minLength", instancePath |-> <<"/", "n">>, schemaPath |-> <<>>,
   message |-> <<"must NOT have fewer than 1 characters">>,
   params |-> [limit |-> 1]]
RawErrorLists == {<<RawMinLength, RawRequired>>}

\* one element of formatValidationErrors' map
FormatError(err) ==
  [keyword |-> err.keyword,
   instancePath |-> IF err.instancePath = <<>> THEN <<"/">> ELSE err.instancePath,
   schemaPath |-> IF err.schemaPath = <<>> THEN <<"#">> ELSE err.schemaPath,
   message |-> IF err.keyword = "required"
               THEN <<"missing required property '", err.params.missingProperty, "'">>
               ELSE err.message,
   params |-> err.params]

formatValidationErrors(ajvErrors) == [i \in DOMAIN ajvErrors |-> FormatError(ajvErrors[i])]

\* result of an entity that no validateEntity call has touched in this call
Fresh == [valid |-> TRUE, errors |-> <<>>, runs |-> 0]

\* validateEntitySync that tolerates a schema that is not registered
validateEntitySyncTolerant(R, isRestricted, entity) ==
  LET refErrors == RefErrors(R, entity.gtsRefs)
      v == [valid |-> refErrors = <<>>, errors |-> refErrors]
  IN IF isRestricted THEN [v |-> v, suspended |-> FALSE]
     ELSE IF entity.kind = "schema" THEN [v |-> v, suspended |-> TRUE]
     ELSE IF entity.schemaId = "" THEN [v |-> v, suspended |-> FALSE]
     ELSE IF resolveSchema(R, entity.schemaId) = <<>>
          THEN [v |-> v, suspended |-> FALSE]
          ELSE [v |-> v, suspended |-> TRUE]

\* validateEntitySync that goes on to structural validation in any host
validateEntitySyncAnyHost(R, isRestricted, entity) ==
  LET refErrors == RefErrors(R, entity.gtsRefs)
      v == [valid |-> refErrors = <<>>, errors |-> refErrors]
  IN IF entity.kind = "schema" THEN [v |-> v, suspended |-> TRUE]
     ELSE IF entity.schemaId = "" THEN [v |-> v, suspended |-> FALSE]
     ELSE IF resolveSchema(R, entity.schemaId) = <<>>
          THEN [v |-> [valid |-> FALSE,
                       errors |-> Append(v.errors, SchemaNotFoundError(entity.schemaId))],
                suspended |-> FALSE]
          ELSE [v |-> v, suspended |-> TRUE]

\* validateEntity up to its first await: the validation result so far and
\* whether the call is suspended in compileAsync
validateEntitySync(R, isRestricted, entity) ==
  LET refErrors == RefErrors(R, entity.gtsRefs)
      v == [valid |-> refErrors = <<>>, errors |-> refErrors]
  IN IF isRestricted THEN [v |-> v, suspended |-> FALSE]
     ELSE IF entity.kind = "schema" THEN [v |-> v, suspended |-> TRUE]
     ELSE IF entity.schemaId = "" THEN [v |-> v, suspended |-> FALSE]
     ELSE IF resolveSchema(R, entity.schemaId) = <<>>
          THEN [v |-> [valid |-> FALSE,
                       errors |-> Append(v.errors, SchemaNotFoundError(entity.schemaId))],
                suspended |-> FALSE]
          ELSE [v |-> v, suspended |-> TRUE]

\* outcomes of the schema-validation engine for a schema and for an object
SchemaOutcomes == {[kind |-> "compiled"], [kind |-> "threw"]}
ObjOutcomes ==
  {[kind |-> "valid"], [kind |-> "threw"]}
  \cup {[kind |-> "invalid", errors |-> l] : l \in RawErrorLists}

\* the error of the try block leaves validateEntity
RethrowValidationError(entity, v) ==
  [valid |-> v.valid, errors |-> v.errors, rejected |-> TRUE]

\* catch (error: any) { ... } of the schema branch and of the object branch:
\* a rejection of compileAsync (the schema does not compile, loadSchema threw
\* for a $ref) or an exception of validate ends as an error of the entity
CatchValidationError(entity, v) ==
  [valid |-> FALSE,
   errors |-> Append(v.errors, IF entity.kind = "schema"
                               THEN InvalidSchemaError("compile")
                               ELSE ValidationThrewError("ajv")),
   rejected |-> FALSE]

\* validateEntity after compileAsync settled: the validation result, and
\* whether the promise of validateEntity rejects
validateEntityResume(entity, v, outcome) ==
  IF outcome.kind = "threw" THEN CatchValidationError(entity, v)
  ELSE IF entity.kind = "schema" \/ outcome.kind = "valid"
       THEN [valid |-> TRUE, errors |-> v.errors, rejected |-> FALSE]
       ELSE [valid |-> FALSE, errors |-> formatValidationErrors(outcome.errors),
             rejected |-> FALSE]


(***************************************************************************)
(* The state machine                                                       *)
(***************************************************************************)
RealPaths == {p \in Paths : ~IsToolingPath(p)}

ListedEntities(m) == UNION {Range(m[i].v) : i \in DOMAIN m}

\* the entity objects reachable from the registry
LiveEntities(R) ==
  Range(MapValues(R.jsonObjs)) \cup Range(MapValues(R.jsonSchemas))
  \cup ListedEntities(R.jsonFileObjs) \cup ListedEntities(R.jsonFileSchemas)

\* the validation fields of the entities of R: those of new entities are fresh
Carry(val, R) ==
  [e \in LiveEntities(R) |-> IF e \in DOMAIN val THEN val[e] ELSE Fresh]

\* the objects that an earlier processFileContent(path) created are no longer
\* those of the latest one
Age(x, path) == IF x.path = path THEN [x EXCEPT !.gen = 1] ELSE x

AgeValues(m, path) == [i \in DOMAIN m |-> [k |-> m[i].k, v |-> Age(m[i].v, path)]]

AgeLists(m, path) ==
  [i \in DOMAIN m |->
     [k |-> m[i].k, v |-> [j \in DOMAIN m[i].v |-> Age(m[i].v[j], path)]]]

AgeRegistry(R, path) ==
  [jsonObjs |-> AgeValues(R.jsonObjs, path),
   jsonSchemas |-> AgeValues(R.jsonSchemas, path),
   jsonFiles |-> AgeValues(R.jsonFiles, path),
   invalidFiles |-> AgeValues(R.invalidFiles, path),
   jsonFileObjs |-> AgeLists(R.jsonFileObjs, path),
   jsonFileSchemas |-> AgeLists(R.jsonFileSchemas, path)]

AgeValidation(val, path) ==
  [e \in {Age(d, path) : d \in DOMAIN val} |->
     val[CHOOSE d \in DOMAIN val : Age(d, path) = e]]

SetRegistry(R) ==
  /\ jsonObjs' = R.jsonObjs
  /\ jsonSchemas' = R.jsonSchemas
  /\ jsonFiles' = R.jsonFiles
  /\ invalidFiles' = R.invalidFiles
  /\ jsonFileObjs' = R.jsonFileObjs
  /\ jsonFileSchemas' = R.jsonFileSchemas

registryVars == <<jsonObjs, jsonSchemas, jsonFiles, invalidFiles, jsonFileObjs,
                  jsonFileSchemas>>

\* raised: processFileContent raised for a file of the batch
NoCall == [raised |-> FALSE, passes |-> 0, outcome |-> "none"]

\* op: the operation; owned: the path owned entities when it began
NoLast ==
  [op |-> "none", path |-> <<>>, content |-> RawText, raised |-> FALSE,
   owned |-> FALSE]


\* null, undefined and a string, as values of string | null | undefined
Null == [kind |-> "null"]
UndefinedPath == [kind |-> "undefined"]
Str(path) == [kind |-> "string", value |-> path]

\* the value is truthy: a string that is not empty
Truthy(x) == x.kind = "string" /\ x.value # <<>>

\* no validateOpenDocument call was made
NoDocument == [path |-> <<>>, stage |-> "none"]

\* diagnosticCollection was not updated yet
NoShown == [op |-> "none", uri |-> <<>>, text |-> <<>>, errors |-> <<>>]

\* findErrorPosition was not called yet
NoLocated == [called |-> FALSE]

\* the text of the document when the extension is activated: '[]'
InitialText == <<"[", "]">>

Init ==
  /\ jsonObjs = <<>>
  /\ jsonSchemas = <<>>
  /\ jsonFiles = <<>>
  /\ invalidFiles = <<>>
  /\ jsonFileObjs = <<>>
  /\ jsonFileSchemas = <<>>
  /\ validation = <<>>
  /\ restricted \in BOOLEAN
  /\ pc = "idle"
  /\ remaining = 0
  /\ todo = <<>>
  /\ inflight = {}
  /\ call = NoCall
  /\ last = NoLast
  /\ fetchCache = <<>>
  /\ retrievals = <<>>
  /\ fetchCalls = <<>>
  /\ defaultFilePath = Null
  /\ document = NoDocument
  /\ surfaced = <<>>
  /\ diagnostics = <<>>
  /\ shown = NoShown
  /\ liveText = InitialText
  /\ openCalls = <<>>
  /\ located = NoLocated
  /\ first = NoLocated
  /\ regexLastIndex = 0

\* LoopDone that ends the loop one file early
LoopDoneEarly(n) == n <= 1

\* the for-of loop over files has visited every file
LoopDone(n) == n = 0

\* the error of the file leaves ingestFiles
RethrowFileError(n) == [pc |-> "idle", remaining |-> n - 1, outcome |-> "rejected"]

\* catch (error) { console.error(...) }: the loop goes on with the next file
CatchFileError(n) == [pc |-> "files", remaining |-> n - 1, outcome |-> "pending"]

\* FirstWave that walks the objects
FirstWaveObjs(R) == MapValues(R.jsonObjs)

\* for (const schema of this.jsonSchemas.values())
FirstWave(R) == MapValues(R.jsonSchemas)

\* for (const obj of this.jsonObjs.values())
SecondWave(R) == MapValues(R.jsonObjs)

\* await this.validateEntity(...): the next call starts when the previous one settled
MayStart(suspendedCalls) == suspendedCalls = {}

\* ingestFiles(files, cfg) is called with a batch of n files
IngestFiles(n) ==
  /\ pc = "idle"
  /\ pc' = "files"
  /\ remaining' = n
  /\ call' = [NoCall EXCEPT !.outcome = "pending"]
  /\ validation' = [e \in DOMAIN validation |-> [validation[e] EXCEPT !.runs = 0]]
  /\ last' = NoLast
  /\ UNCHANGED <<registryVars, restricted, todo, inflight, auxVars>>

\* one iteration of the loop of ingestFiles
ProcessFile(path, content) ==
  /\ pc = "files"
  /\ remaining > 0
  /\ IF IsToolingPath(path)
     THEN /\ remaining' = remaining - 1
          /\ UNCHANGED <<registryVars, validation, pc, call, last>>
     ELSE \E r \in {processFileContent(AgeRegistry(Registry, path), path, content)},
             c \in {CatchFileError(remaining)} :
             /\ SetRegistry(r.reg)
             /\ validation' = Carry(AgeValidation(validation, path), r.reg)
             /\ last' = [op |-> "processFileContent", path |-> path,
                         content |-> content, raised |-> r.raised,
                         owned |-> \E e \in LiveEntities(Registry) : e.path = path]
             /\ IF r.raised
                THEN /\ pc' = c.pc
                     /\ remaining' = c.remaining
                     /\ call' = [call EXCEPT !.raised = TRUE, !.outcome = c.outcome]
                ELSE /\ pc' = pc
                     /\ remaining' = remaining - 1
                     /\ call' = call
  /\ UNCHANGED <<restricted, todo, inflight, auxVars>>

\* await this.validateEntities(): the schema wave begins
StartValidation ==
  /\ pc = "files"
  /\ LoopDone(remaining)
  /\ pc' = "schemas"
  /\ todo' = FirstWave(Registry)
  /\ call' = [call EXCEPT !.passes = @ + 1]
  /\ last' = NoLast
  /\ UNCHANGED <<registryVars, validation, restricted, remaining, inflight, auxVars>>

\* validateEntity(entity) runs up to its first await, or to its end
ValidateBegin ==
  /\ pc \in {"schemas", "objs"}
  /\ todo # <<>>
  /\ MayStart(inflight)
  /\ \E entity \in {Head(todo)} :
     \E r \in {validateEntitySync(Registry, restricted, entity)} :
        /\ validation' =
             [validation EXCEPT ![entity] =
                [valid |-> r.v.valid, errors |-> r.v.errors,
                 runs |-> IF r.suspended THEN @.runs ELSE @.runs + 1]]
        /\ inflight' = IF r.suspended THEN inflight \cup {entity} ELSE inflight
  /\ todo' = Tail(todo)
  /\ UNCHANGED <<registryVars, restricted, pc, remaining, call, last, auxVars>>

\* compileAsync settles and validateEntity(entity) runs to its end
ValidateEnd(entity, outcome) ==
  /\ entity \in inflight
  /\ outcome \in (IF entity.kind = "schema" THEN SchemaOutcomes ELSE ObjOutcomes)
  /\ \E v \in {validateEntityResume(entity, validation[entity], outcome)} :
        /\ validation' =
             [validation EXCEPT ![entity] =
                [valid |-> v.valid, errors |-> v.errors, runs |-> @.runs + 1]]
        /\ IF v.rejected
           THEN \* the rejection leaves validateEntities (no try around its
                \* awaits) and ingestFiles
                /\ pc' = "idle"
                /\ todo' = <<>>
                /\ inflight' = {}
                /\ call' = [call EXCEPT !.outcome = "rejected"]
           ELSE /\ inflight' = inflight \ {entity}
                /\ UNCHANGED <<pc, todo, call>>
  /\ UNCHANGED <<registryVars, restricted, remaining, last, auxVars>>

\* the schema wave is over, the object wave begins
NextWave ==
  /\ pc = "schemas"
  /\ todo = <<>>
  /\ inflight = {}
  /\ pc' = "objs"
  /\ todo' = SecondWave(Registry)
  /\ UNCHANGED <<registryVars, validation, restricted, remaining,
                 inflight, call, last, auxVars>>

\* validateEntities and ingestFiles return
Return ==
  /\ pc = "objs"
  /\ todo = <<>>
  /\ inflight = {}
  /\ pc' = "idle"
  /\ call' = [call EXCEPT !.outcome = "resolved"]
  /\ UNCHANGED <<registryVars, validation, restricted, remaining,
                 todo, inflight, last, auxVars>>

\* invalidateFile(path) called from outside ingestFiles
InvalidateFile(path) ==
  /\ pc = "idle"
  /\ \E R \in {invalidateFile(Registry, path)} :
        /\ SetRegistry(R)
        /\ validation' = Carry(validation, R)
  /\ last' = [NoLast EXCEPT !.op = "invalidateFile", !.path = path,
                            !.owned = \E e \in LiveEntities(Registry) : e.path = path]
  /\ call' = NoCall
  /\ UNCHANGED <<restricted, pc, remaining, todo, inflight, auxVars>>

\* reset()
Reset ==
  /\ pc = "idle"
  /\ SetRegistry(EmptyRegistry)
  /\ validation' = <<>>
  /\ last' = [NoLast EXCEPT !.op = "reset"]
  /\ call' = NoCall
  /\ fetchCache' = <<>>
  /\ retrievals' = <<>>
  /\ fetchCalls' = <<>>
  /\ defaultFilePath' = Null
  /\ UNCHANGED <<restricted, pc, remaining, todo, inflight, editorVars>>

Next ==
  \/ \E n \in 0..MaxBatch : IngestFiles(n)
  \/ \E path \in RealPaths, content \in Contents : ProcessFile(path, content)
  \/ \E path \in Paths \ RealPaths : ProcessFile(path, RawText)
  \/ StartValidation
  \/ ValidateBegin
  \/ \E entity \in inflight, outcome \in SchemaOutcomes \cup ObjOutcomes :
       ValidateEnd(entity, outcome)
  \/ NextWave
  \/ Return
  \/ \E path \in RealPaths : InvalidateFile(path)
  \/ Reset

Spec == Init /\ [][Next]_vars

(***************************************************************************)
(* fetchJson                                                               *)
(***************************************************************************)
\* paths given to fetchJson, character by character
FetchPaths == {<<"a", "/", "b">>, <<"/", "a", "/", "b">>, <<"/", "c">>}

\* the key is the path as given
fetchKeyRaw(path) == path

\* const key = path.startsWith('/') ? path : `/${path}`
fetchKey(path) == IF path # <<>> /\ Head(path) = "/" THEN path ELSE <<"/">> \o path

\* fetchJson that retrieves again when the cached retrieval has failed
fetchJsonRetriesFailed(cache, path, force, p) ==
  LET key == fetchKey(path) IN
  IF ~force /\ MapHas(cache, key) /\ retrievals[MapGet(cache, key)].state # "rejected"
  THEN [cache |-> cache, promise |-> MapGet(cache, key), started |-> FALSE, key |-> key]
  ELSE [cache |-> MapSet(cache, key, p), promise |-> p, started |-> TRUE, key |-> key]

\* the synchronous part of fetchJson(path, force): the cache it leaves, the
\* promise it returns, and whether it called fetch(key); p is the promise of
\* the retrieval it would start
fetchJson(cache, path, force, p) ==
  LET key == fetchKey(path) IN
  IF ~force /\ MapHas(cache, key)
  THEN [cache |-> cache, promise |-> MapGet(cache, key), started |-> FALSE, key |-> key]
  ELSE [cache |-> MapSet(cache, key, p), promise |-> p, started |-> TRUE, key |-> key]

\* fetchJson(path, force) is called
FetchJson(path, force) ==
  /\ Len(fetchCalls) < MaxCalls
  /\ \E r \in {fetchJson(fetchCache, path, force, Len(retrievals) + 1)} :
        /\ fetchCache' = r.cache
        /\ retrievals' = IF r.started
                         THEN Append(retrievals, [key |-> r.key, state |-> "pending"])
                         ELSE retrievals
        /\ fetchCalls' = Append(fetchCalls, [path |-> path, force |-> force,
                                             promise |-> r.promise,
                                             started |-> r.started])
  /\ UNCHANGED <<registryVars, validation, restricted, pc, remaining, todo,
                 inflight, call, last, defaultFilePath, editorVars>>

\* fetch(key) settles: res.json() when res.ok, an Error otherwise
FetchSettles(i, ok) ==
  /\ i \in DOMAIN retrievals
  /\ retrievals[i].state = "pending"
  /\ retrievals' = [retrievals EXCEPT ![i].state = IF ok THEN "fulfilled" ELSE "rejected"]
  /\ UNCHANGED <<registryVars, validation, restricted, pc, remaining, todo,
                 inflight, call, last, fetchCache, fetchCalls, defaultFilePath,
                 editorVars>>

NextFetch ==
  \/ \E path \in FetchPaths, force \in BOOLEAN : FetchJson(path, force)
  \/ \E i \in 1..MaxCalls, ok \in BOOLEAN : FetchSettles(i, ok)
  \/ Reset

SpecFetch == Init /\ [][NextFetch]_vars

(***************************************************************************)
(* The default file                                                        *)
(***************************************************************************)
\* setDefaultFile that falls back to the file inserted last
setDefaultFileLast(R, pathOrNull) ==
  IF Truthy(pathOrNull) THEN pathOrNull
  ELSE IF R.jsonFiles # <<>> /\ R.jsonFiles[Len(R.jsonFiles)].v.path # <<>>
       THEN Str(R.jsonFiles[Len(R.jsonFiles)].v.path)
       ELSE Null

\* setDefaultFile(pathOrNull): the value it leaves in defaultFilePath;
\* this.jsonFiles.values().next().value?.path || null
setDefaultFile(R, pathOrNull) ==
  IF Truthy(pathOrNull) THEN pathOrNull
  ELSE IF R.jsonFiles # <<>> /\ MapValues(R.jsonFiles)[1].path # <<>>
       THEN Str(MapValues(R.jsonFiles)[1].path)
       ELSE Null

\* return this.defaultFilePath || null
getDefaultFilePath(d) == IF Truthy(d) THEN d ELSE Null

\* getDefaultFile(): <<file>>, or <<>> for undefined
getDefaultFile(R, d) ==
  IF ~Truthy(d) THEN <<>>
  ELSE IF MapHas(R.jsonFiles, d.value) THEN <<MapGet(R.jsonFiles, d.value)>> ELSE <<>>

\* the arguments of setDefaultFile
DefaultArgs == {Null, UndefinedPath, Str(<<>>)} \cup {Str(p) : p \in Paths}

\* the contents of the files whose default is set
DefaultContents ==
  {RawText} \cup {[valid |-> TRUE, isArray |-> FALSE, elems |-> <<e>>] : e \in {ObjZ, NonGts}}

\* setDefaultFile(pathOrNull) is called
SetDefaultFile(pathOrNull) ==
  /\ pc = "idle"
  /\ defaultFilePath' = setDefaultFile(Registry, pathOrNull)
  /\ last' = [NoLast EXCEPT !.op = "setDefaultFile",
                            !.path = IF Truthy(pathOrNull) THEN pathOrNull.value ELSE <<>>]
  /\ UNCHANGED <<registryVars, validation, restricted, pc, remaining, todo,
                 inflight, call, fetchVars, editorVars>>

NextDefault ==
  \/ \E n \in 0..MaxBatch : IngestFiles(n)
  \/ \E path \in RealPaths, content \in DefaultContents : ProcessFile(path, content)
  \/ StartValidation
  \/ ValidateBegin
  \/ NextWave
  \/ Return
  \/ \E path \in RealPaths : InvalidateFile(path)
  \/ Reset
  \/ \E pathOrNull \in DefaultArgs : SetDefaultFile(pathOrNull)

SpecDefault == Init /\ [][NextDefault]_vars

(***************************************************************************)
(* validateOpenDocument: ingestion and collection of the errors            *)
(***************************************************************************)
DigitChars == <<"0", "1", "2", "3", "4", "5", "6", "7", "8", "9">>

RECURSIVE NumberToString(_)
\* `${n}` for a number n >= 0
NumberToString(n) ==
  IF n < 10 THEN <<DigitChars[n + 1]>>
  ELSE NumberToString(n \div 10) \o <<DigitChars[(n % 10) + 1]>>

\* s.replace(/^\//, '')
StripLeadingSlash(s) == IF s # <<>> /\ Head(s) = "/" THEN Tail(s) ELSE s

\* the instancePath is left as the validation reported it
AdjustedPathSame(listSequence, instancePath) == instancePath

\* normalizedPath ? `/${e.listSequence}/${normalizedPath}` : `/${e.listSequence}`
AdjustedPath(listSequence, instancePath) ==
  LET normalizedPath == StripLeadingSlash(instancePath) IN
  IF normalizedPath # <<>>
  THEN <<"/">> \o NumberToString(listSequence) \o <<"/">> \o normalizedPath
  ELSE <<"/">> \o NumberToString(listSequence)

\* the errors of one entity as validateOpenDocument surfaces them
EntityErrors(val, e) ==
  IF e.listSequence # Undefined
  THEN [i \in DOMAIN val[e].errors |->
          [val[e].errors[i] EXCEPT !.instancePath = AdjustedPath(e.listSequence, @)]]
  ELSE val[e].errors

RECURSIVE CollectEntityErrors(_, _)
\* for (const e of [...fileObjs, ...fileSchemas]) errors.push(...)
CollectEntityErrors(val, entities) ==
  IF entities = <<>> THEN <<>>
  ELSE EntityErrors(val, Head(entities)) \o CollectEntityErrors(val, Tail(entities))

\* the errors that validateOpenDocument collects for the document;
\* fileErrors are the errors of the document's file when it is invalid
CollectErrors(R, val, filePath, fileErrors) ==
  IF MapHas(R.invalidFiles, filePath) /\ fileErrors # <<>>
  THEN fileErrors
  ELSE LET fileObjs == SelectSeq(MapValues(R.jsonObjs), LAMBDA o : o.path = filePath)
           fileSchemas == SelectSeq(MapValues(R.jsonSchemas), LAMBDA x : x.path = filePath)
       IN CollectEntityErrors(val, fileObjs \o fileSchemas)

\* the error of a file whose content is not valid JSON
InvalidFileError == Error("parse", <<>>, <<"Invalid JSON">>, [error |-> "parse"])

\* the contents of the files that validateOpenDocument ingests
OpenArrayElements == {ObjY, SchemaX}

OpenArrays == UNION {[1..n -> OpenArrayElements] : n \in 1..MaxElems}

OpenContents ==
  {RawText}
  \cup {[valid |-> TRUE, isArray |-> FALSE, elems |-> <<e>>] : e \in {SchemaX, ObjY, ObjZ}}
  \cup {[valid |-> TRUE, isArray |-> TRUE, elems |-> a] : a \in OpenArrays}

\* validateOpenDocument(document) up to its call of ingestFiles: a new
\* registry ingests the n files of the last scan and the document
ValidateOpenDocument(path, n) ==
  /\ pc = "idle"
  /\ SetRegistry(EmptyRegistry)
  /\ validation' = <<>>
  /\ pc' = "files"
  /\ remaining' = n + 1
  /\ call' = [NoCall EXCEPT !.outcome = "pending"]
  /\ last' = NoLast
  /\ document' = [path |-> path, stage |-> "ingesting"]
  /\ surfaced' = <<>>
  /\ UNCHANGED <<restricted, todo, inflight, fetchVars, defaultFilePath,
                 diagnosticVars, locatorVars,
                 overlapVars>>

\* merged = [...withoutCurrent, {path: filePath, ...}]: the document is the
\* last file of the batch and no other file has its path
MergedFile(path, content) ==
  /\ (remaining = 1) <=> (path = document.path)
  /\ ProcessFile(path, content)

\* validateOpenDocument after ingestFiles returned: the errors of the document
CollectDocumentErrors(fileErrors) ==
  /\ document.stage = "ingesting"
  /\ pc = "idle"
  /\ call.outcome = "resolved"
  /\ surfaced' = CollectErrors(Registry, validation, document.path, fileErrors)
  /\ document' = [document EXCEPT !.stage = "collected"]
  /\ UNCHANGED <<registryVars, validation, restricted, pc, remaining, todo,
                 inflight, call, last, fetchVars, defaultFilePath,
                 diagnosticVars, locatorVars,
                 overlapVars>>

NextOpen ==
  \/ \E path \in RealPaths, n \in 0..(MaxBatch - 1) : ValidateOpenDocument(path, n)
  \/ \E path \in RealPaths, content \in OpenContents : MergedFile(path, content)
  \/ StartValidation
  \/ ValidateBegin
  \/ \E entity \in inflight, outcome \in SchemaOutcomes \cup ObjOutcomes :
       ValidateEnd(entity, outcome)
  \/ NextWave
  \/ Return
  \/ \E fileErrors \in {<<>>, <<InvalidFileError>>} : CollectDocumentErrors(fileErrors)

SpecOpen == Init /\ [][NextOpen]_vars

(***************************************************************************)
(* Text of a document: a sequence of characters, offsets from 0            *)
(***************************************************************************)
At(text, i) == text[i + 1]

\* text.substring(from, to)
Substring(text, from, to) == SubSeq(text, from + 1, to)

\* /\s/
Whitespace == {" ", "\n", "\t"}

Quote == "\""

\* document.positionAt(offset)
positionAt(text, offset) ==
  LET o == IF offset > Len(text) THEN Len(text) ELSE offset
      breaks == {j \in 0..(o - 1) : At(text, j) = "\n"}
      lineStart == IF breaks = {} THEN 0
                   ELSE (CHOOSE j \in breaks : \A k \in breaks : k <= j) + 1
  IN [line |-> Cardinality(breaks), character |-> o - lineStart]

\* document.offsetAt(position)
offsetAt(text, position) ==
  LET starts == {0} \cup {j + 1 : j \in {k \in 0..(Len(text) - 1) : At(text, k) = "\n"}}
      before == {j \in starts :
                   Cardinality({k \in starts : k < j}) = position.line}
  IN IF before = {} THEN Len(text)
     ELSE LET o == (CHOOSE j \in before : TRUE) + position.character
          IN IF o > Len(text) THEN Len(text) ELSE o

\* new vscode.Range(start, end), as the value a function returns; <<>> is null
RangeOf(start, end) == <<[start |-> start, end |-> end]>>

\* new vscode.Range(pos, pos.translate(0, 1)) for the position of an offset
OneCharRange(text, offset) ==
  LET pos == positionAt(text, offset)
  IN RangeOf(pos, [line |-> pos.line, character |-> pos.character + 1])

\* new vscode.Range(positionAt(from), positionAt(to))
OffsetRange(text, from, to) == RangeOf(positionAt(text, from), positionAt(text, to))

RECURSIVE SkipWhitespace(_, _)
\* the offset of the first character from i on that is no whitespace
SkipWhitespace(text, i) ==
  IF i < Len(text) /\ At(text, i) \in Whitespace THEN SkipWhitespace(text, i + 1) ELSE i

RECURSIVE IndexOfChar(_, _, _)
\* the offset of the first c from i on, or -1
IndexOfChar(text, c, i) ==
  IF i >= Len(text) THEN -1
  ELSE IF At(text, i) = c THEN i ELSE IndexOfChar(text, c, i + 1)

RECURSIVE Split(_)
\* path.split('/')
Split(path) ==
  LET k == IndexOfChar(path, "/", 0) IN
  IF k = -1 THEN <<path>>
  ELSE <<Substring(path, 0, k)>> \o Split(Substring(path, k + 1, Len(path)))

RECURSIVE Join(_)
\* segments.join('/')
Join(segments) ==
  IF segments = <<>> THEN <<>>
  ELSE IF Len(segments) = 1 THEN segments[1]
  ELSE segments[1] \o <<"/">> \o Join(Tail(segments))

\* /^\d+$/.test(segment)
IsIndex(segment) == segment # <<>> /\ \A i \in DOMAIN segment : segment[i] \in Digits

RECURSIVE parseInt(_)
\* parseInt(segment, 10) of a run of digits
parseInt(segment) ==
  IF segment = <<>> THEN 0
  ELSE parseInt(SubSeq(segment, 1, Len(segment) - 1)) * 10
       + (CHOOSE d \in DOMAIN DigitChars : DigitChars[d] = segment[Len(segment)]) - 1

(***************************************************************************)
(* Regular expressions of the locator                                      *)
(***************************************************************************)
\* the characters that escapeRegex escapes
RegexSpecials == {".", "*", "+", "?", "^", "$", "{", "}", "(", ")", "|", "[", "]", "\\"}

RECURSIVE escapeRegex(_)
\* str.replace(/[.*+?^${}()|[\]\\]/g, '\\$&')
escapeRegex(str) ==
  IF str = <<>> THEN <<>>
  ELSE (IF Head(str) \in RegexSpecials THEN <<"\\", Head(str)>> ELSE <<Head(str)>>)
       \o escapeRegex(Tail(str))

RECURSIVE MatchEscaped(_, _, _)
\* the offset after a match at i of a pattern made of characters and escaped
\* characters (an unescaped '.' matches any character), or -1
MatchEscaped(pattern, text, i) ==
  IF pattern = <<>> THEN i
  ELSE IF i >= Len(text) THEN -1
  ELSE IF Head(pattern) = "\\" /\ Len(pattern) > 1
       THEN IF At(text, i) = pattern[2]
            THEN MatchEscaped(SubSeq(pattern, 3, Len(pattern)), text, i + 1)
            ELSE -1
  ELSE IF Head(pattern) = "." \/ At(text, i) = Head(pattern)
       THEN MatchEscaped(Tail(pattern), text, i + 1)
       ELSE -1

\* the offset after a match at i of ["']name["']\s*: and, with brace,
\* of ["']name["']\s*:\s*\{ , or -1; name is escaped
MatchKeyAt(text, name, brace, i) ==
  IF i >= Len(text) \/ At(text, i) \notin {Quote, "'"} THEN -1
  ELSE LET n == MatchEscaped(name, text, i + 1) IN
       IF n = -1 \/ n >= Len(text) \/ At(text, n) \notin {Quote, "'"} THEN -1
       ELSE LET c == SkipWhitespace(text, n + 1) IN
            IF c >= Len(text) \/ At(text, c) # ":" THEN -1
            ELSE IF ~brace THEN c + 1
            ELSE LET b == SkipWhitespace(text, c + 1) IN
                 IF b < Len(text) /\ At(text, b) = "{" THEN b + 1 ELSE -1

RECURSIVE ExecKey(_, _, _, _)
\* searchPattern.exec(text) of a key pattern whose lastIndex is i: the index
\* of the match and the offset after it, or index -1
ExecKey(text, name, brace, i) ==
  IF i >= Len(text) THEN [index |-> -1, end |-> 0]
  ELSE LET n == MatchKeyAt(text, name, brace, i) IN
       IF n # -1 THEN [index |-> i, end |-> n]
       ELSE ExecKey(text, name, brace, i + 1)

RECURSIVE NonQuoteRun(_, _)
\* the offset after the run of characters other than '"' from i on
NonQuoteRun(text, i) ==
  IF i < Len(text) /\ At(text, i) # Quote THEN NonQuoteRun(text, i + 1) ELSE i

\* the offset after a match at i of "name"\s*:\s*"v" for a value <<v>>, with
\* v escaped, and of "name"\s*:\s*"([^"]+)" for a value <<>>, or -1
MatchFieldAt(text, name, value, i) ==
  LET n == MatchEscaped(<<Quote>> \o name \o <<Quote>>, text, i) IN
  IF n = -1 THEN -1
  ELSE LET c == SkipWhitespace(text, n) IN
       IF c >= Len(text) \/ At(text, c) # ":" THEN -1
       ELSE LET q == SkipWhitespace(text, c + 1) IN
            IF q >= Len(text) \/ At(text, q) # Quote THEN -1
            ELSE LET v == IF value = <<>> THEN NonQuoteRun(text, q + 1)
                          ELSE MatchEscaped(value[1], text, q + 1)
                 IN IF v = -1 \/ v >= Len(text) \/ At(text, v) # Quote THEN -1
                    ELSE IF value = <<>> /\ v = q + 1 THEN -1
                    ELSE v + 1

RECURSIVE ExecField(_, _, _, _)
\* exec or match of a field pattern from offset i on: the index of the match and
\* the offset after it, or index -1
ExecField(text, name, value, i) ==
  IF i >= Len(text) THEN [index |-> -1, end |-> 0]
  ELSE LET n == MatchFieldAt(text, name, value, i) IN
       IF n # -1 THEN [index |-> i, end |-> n]
       ELSE ExecField(text, name, value, i + 1)

\* the RegExp object is the one of an earlier call
SharedRegExp == regexLastIndex

\* lastIndex of new RegExp(..., 'g')
NewRegExp == 0

(***************************************************************************)
(* The locator                                                             *)
(***************************************************************************)
\* a pass that counts every brace and bracket, also those of a string
ScanStepInStrings(st, char) ==
  CASE char = "[" -> [st EXCEPT !.bracketCount = @ + 1]
    [] char = "]" -> [st EXCEPT !.bracketCount = @ - 1]
    [] char = "{" -> [st EXCEPT !.braceCount = @ + 1]
    [] char = "}" ->
         [st EXCEPT !.braceCount = @ - 1,
                    !.objectCount = IF st.braceCount - 1 = 0 /\ st.bracketCount = 0
                                    THEN @ + 1 ELSE @]
    [] OTHER -> st

\* one pass of the body of the loop over a character that does not end it
ScanStep(st, char) ==
  CASE st.escapeNext -> [st EXCEPT !.escapeNext = FALSE]
    [] ~st.escapeNext /\ char = "\\" /\ st.inString -> [st EXCEPT !.escapeNext = TRUE]
    [] ~st.escapeNext /\ char = Quote -> [st EXCEPT !.inString = ~@]
    [] ~st.escapeNext /\ char \notin {"\\", Quote} /\ st.inString -> st
    [] ~st.escapeNext /\ ~st.inString /\ char = "[" -> [st EXCEPT !.bracketCount = @ + 1]
    [] ~st.escapeNext /\ ~st.inString /\ char = "]" -> [st EXCEPT !.bracketCount = @ - 1]
    [] ~st.escapeNext /\ ~st.inString /\ char = "{" -> [st EXCEPT !.braceCount = @ + 1]
    [] ~st.escapeNext /\ ~st.inString /\ char = "}" ->
         [st EXCEPT !.braceCount = @ - 1,
                    !.objectCount = IF st.braceCount - 1 = 0 /\ st.bracketCount = 0
                                    THEN @ + 1 ELSE @]
    [] OTHER -> st

\* the character is read outside of a string and of an escape
Structural(st) == ~st.escapeNext /\ ~st.inString

RECURSIVE ScanArray(_, _, _, _)
\* for (let i = pos; i < text.length; i++) { ... }: currentObjectStart of the
\* object whose objectCount is index, or -1; the loop ends at the ']' of the
\* root array
ScanArray(text, i, st, index) ==
  IF i >= Len(text) THEN -1
  ELSE IF Structural(st) /\ At(text, i) = "]" /\ st.bracketCount = 0 THEN -1
  ELSE IF /\ Structural(st) /\ At(text, i) = "{"
          /\ st.braceCount = 0 /\ st.bracketCount = 0 /\ st.objectCount = index
       THEN i
  ELSE ScanArray(text, i + 1, ScanStep(st, At(text, i)), index)

\* the offset of the opening brace of the index-th object of the root array,
\* or -1: the whitespace is skipped, '[' is expected, the elements are scanned
NthObjectStart(text, index) ==
  LET pos == SkipWhitespace(text, 0) IN
  IF pos >= Len(text) \/ At(text, pos) # "[" THEN -1
  ELSE ScanArray(text, pos + 1,
                 [braceCount |-> 0, bracketCount |-> 0, objectCount |-> 0,
                  inString |-> FALSE, escapeNext |-> FALSE],
                 index)

findNthObjectBracePosition(text, index) ==
  LET currentObjectStart == NthObjectStart(text, index) IN
  IF currentObjectStart = -1 THEN <<>> ELSE OneCharRange(text, currentObjectStart)

\* const objectText = text.substring(currentObjectStart, i + 1), where i is
\* the offset of the opening brace
ObjectTextAtBrace(text, currentObjectStart, i) == Substring(text, currentObjectStart, i + 1)

findNthObjectInArray(text, index, highlightBrace) ==
  LET currentObjectStart == NthObjectStart(text, index) IN
  IF currentObjectStart = -1 THEN <<>>
  ELSE IF highlightBrace THEN OneCharRange(text, currentObjectStart)
  ELSE LET objectText == ObjectTextAtBrace(text, currentObjectStart, currentObjectStart)
           idMatch == ExecField(objectText, <<"i", "d">>, <<>>, 0)
           typeMatch == ExecField(objectText, <<"t", "y", "p", "e">>, <<>>, 0)
       IN IF idMatch.index # -1
          THEN OffsetRange(text, currentObjectStart + idMatch.index + 1,
                           currentObjectStart + idMatch.index + 3)
          ELSE IF typeMatch.index # -1
          THEN OffsetRange(text, currentObjectStart + typeMatch.index + 1,
                           currentObjectStart + typeMatch.index + 5)
          ELSE OneCharRange(text, currentObjectStart)

\* one pass of the body of the loop that looks for the closing brace
BraceStep(st, char) ==
  CASE st.escapeNext -> [st EXCEPT !.escapeNext = FALSE]
    [] ~st.escapeNext /\ char = "\\" /\ st.inString -> [st EXCEPT !.escapeNext = TRUE]
    [] ~st.escapeNext /\ char = Quote -> [st EXCEPT !.inString = ~@]
    [] ~st.escapeNext /\ ~st.inString /\ char = "{" -> [st EXCEPT !.braceCount = @ + 1]
    [] ~st.escapeNext /\ ~st.inString /\ char = "}" -> [st EXCEPT !.braceCount = @ - 1]
    [] OTHER -> st

RECURSIVE ClosingBrace(_, _, _)
\* the loop that looks for the closing brace: the offset of the '}' that
\* brings braceCount to 0, or -1
ClosingBrace(text, i, st) ==
  IF i >= Len(text) THEN -1
  ELSE IF Structural(st) /\ At(text, i) = "}" /\ st.braceCount - 1 = 0 THEN i
  ELSE ClosingBrace(text, i + 1, BraceStep(st, At(text, i)))

\* <<[text, startOffset]>>, or <<>> for null
findObjectTextAtPosition(text, startPos) ==
  LET objectStart == IndexOfChar(text, "{", startPos) IN
  IF objectStart = -1 THEN <<>>
  ELSE LET i == ClosingBrace(text, objectStart + 1, [braceCount |-> 1, inString |-> FALSE, escapeNext |-> FALSE]) IN
       IF i = -1 THEN <<>>
       ELSE <<[text |-> Substring(text, objectStart, i + 1), startOffset |-> objectStart]>>

\* <<valueText>>, or <<>> for null
findPropertyValueText(text) ==
  LET i == SkipWhitespace(text, 0) IN
  IF i >= Len(text) THEN <<>>
  ELSE IF At(text, i) = "{"
       THEN LET j == ClosingBrace(text, i, [braceCount |-> 0, inString |-> FALSE, escapeNext |-> FALSE]) IN
            IF j = -1 THEN <<>> ELSE <<Substring(text, i, j + 1)>>
       ELSE <<>>

RECURSIVE PropertyLoop(_, _, _, _, _)
\* the loop of findPropertyInText over the segments from the i-th on
PropertyLoop(docText, currentText, currentOffset, segments, i) ==
  IF i > Len(segments) THEN <<>>
  ELSE LET segment == segments[i]
           match == ExecKey(currentText, escapeRegex(segment), FALSE, NewRegExp)
       IN IF match.index = -1 THEN <<>>
          ELSE LET propertyOffset == currentOffset + match.index IN
               IF i = Len(segments)
               THEN OffsetRange(docText, propertyOffset + 1,
                                propertyOffset + 1 + Len(segment))
               ELSE LET valueStart == currentOffset + match.end
                        valueText == findPropertyValueText(
                                       Substring(currentText, match.end, Len(currentText)))
                    IN IF valueText = <<>> THEN <<>>
                       ELSE PropertyLoop(docText, valueText[1], valueStart, segments, i + 1)

\* findPropertyInText(text, document, baseOffset, path); docText is the text of
\* the document
findPropertyInText(docText, text, baseOffset, path) ==
  LET segments == SelectSeq(Split(path), LAMBDA x : Len(x) > 0 /\ ~IsIndex(x)) IN
  IF Len(segments) = 0 THEN <<>>
  ELSE PropertyLoop(docText, text, baseOffset, segments, 1)

findPropertyAtPath(text, path) ==
  LET segments == Split(path) IN
  IF Len(segments) > 0 /\ IsIndex(segments[1])
  THEN LET arrayIndex == parseInt(segments[1]) IN
       IF Len(segments) > 1
       THEN LET objectBracePos == findNthObjectBracePosition(text, arrayIndex) IN
            IF objectBracePos = <<>> THEN <<>>
            ELSE LET objectStart == offsetAt(text, objectBracePos[1].start)
                     objectText == findObjectTextAtPosition(text, objectStart)
                 IN IF objectText = <<>> THEN <<>>
                    ELSE findPropertyInText(text, objectText[1].text,
                                            objectText[1].startOffset,
                                            Join(Tail(segments)))
       ELSE findNthObjectInArray(text, arrayIndex, FALSE)
  ELSE findPropertyInText(text, text, 0, path)

\* findObjectAtPath(text, document, path, highlightBrace)
findObjectAtPath(text, path, highlightBrace) ==
  IF path = <<>>
  THEN LET rootMatch == IndexOfChar(text, "{", 0) IN
       IF rootMatch # -1 THEN OneCharRange(text, rootMatch) ELSE <<>>
  ELSE LET segments == Split(path)
           lastSegment == segments[Len(segments)]
       IN IF Len(segments) = 1 /\ IsIndex(segments[1])
          THEN findNthObjectInArray(text, parseInt(segments[1]), highlightBrace)
          ELSE IF IsIndex(lastSegment)
          THEN findNthObjectInArray(text, parseInt(lastSegment), FALSE)
          ELSE LET match == ExecKey(text, escapeRegex(lastSegment), TRUE, NewRegExp) IN
               IF match.index # -1
               THEN OffsetRange(text, match.index + 1, match.index + 1 + Len(lastSegment))
               ELSE <<>>

\* the range of the whole match, the key with its value
findTypeFieldWithValue(text, typeValue) ==
  LET match == ExecField(text, <<"t", "y", "p", "e">>, <<escapeRegex(typeValue)>>,
                         NewRegExp)
  IN IF match.index # -1
     THEN OffsetRange(text, match.index, match.end)
     ELSE <<>>

findTypeFieldByValue(text, typeValue) ==
  LET match == ExecField(text, <<"t", "y", "p", "e">>, <<escapeRegex(typeValue)>>,
                         NewRegExp)
  IN IF match.index # -1
     THEN OffsetRange(text, match.index + 1, match.index + 5)
     ELSE <<>>

\* s.replace(/\/$/, '')
StripTrailingSlash(s) ==
  IF s # <<>> /\ s[Len(s)] = "/" THEN SubSeq(s, 1, Len(s) - 1) ELSE s

\* the range of the last branch that finds one
LastRange(ranges) ==
  LET found == SelectSeq(ranges, LAMBDA r : r # <<>>)
  IN IF found = <<>> THEN <<>> ELSE found[Len(found)]

\* the branches of findErrorPosition in their order: the range that the first
\* of them that finds one returns, or <<>> for null
FirstRange(ranges) ==
  LET found == SelectSeq(ranges, LAMBDA r : r # <<>>)
  IN IF found = <<>> THEN <<>> ELSE found[1]

findErrorPosition(text, instancePath, error) ==
  LET path == StripTrailingSlash(StripLeadingSlash(instancePath))
      schema ==
        IF error.keyword # "schema" THEN <<>>
        ELSE IF path = <<>> /\ "schemaId" \in DOMAIN error.params
             THEN findTypeFieldByValue(text, error.params.schemaId)
        ELSE IF path # <<>> THEN findObjectAtPath(text, path, FALSE)
        ELSE <<>>
      additional ==
        IF error.keyword = "additionalProperties"
           /\ "additionalProperty" \in DOMAIN error.params
        THEN LET additionalProp == error.params.additionalProperty
                 match == ExecKey(text, escapeRegex(additionalProp), FALSE, NewRegExp)
             IN IF match.index # -1
                THEN OffsetRange(text, match.index + 1,
                                 match.index + 1 + Len(additionalProp))
                ELSE <<>>
        ELSE <<>>
      required ==
        IF error.keyword = "required" /\ "missingProperty" \in DOMAIN error.params
        THEN IF path = <<>>
             THEN LET rootMatch == IndexOfChar(text, "{", 0) IN
                  IF rootMatch # -1 THEN OneCharRange(text, rootMatch) ELSE <<>>
             ELSE findObjectAtPath(text, path, TRUE)
        ELSE <<>>
      general == IF path # <<>> THEN findPropertyAtPath(text, path) ELSE <<>>
  IN FirstRange(<<schema, additional, required, general>>)

(***************************************************************************)
(* Locating an error in the text of a document                             *)
(***************************************************************************)
\* texts of open documents (document.getText()): a root array of three
\* objects over three lines, a root object with a nested object, and an array
\* whose first element nests a key that it also has itself, after strings that
\* hold braces, a bracket and an escaped quote
DocArray ==
  <<"[", "{", "\"", "i", "d", "\"", ":", "\"", "a", "\"", ",", "\"", "x", "\"", ":", "1", "}", ",", "\n",
    " ", "{", "\"", "t", "y", "p", "e", "\"", ":", "\"", "s", "\"", ",", "\"", "x", "\"", ":", "2", "}", ",", "\n",
    " ", "{", "\"", "x", "\"", ":", "3", "}", "]">>

DocObject ==
  <<"{", "\"", "a", "b", "\"", ":", " ", "{", "\"", "x", "\"", ":", " ", "1", "}", ",", "\n",
    " ", "\"", "t", "y", "p", "e", "\"", ":", " ", "\"", "s", "\"", "}">>

DocNested ==
  <<"[", "{", "\"", "s", "\"", ":", "\"", "}", "\\", "\"", "{", "\"", ",", "\"", "a", "\"", ":",
    "{", "\"", "t", "\"", ":", "\"", "]", "}", "\"", ",", "\"", "x", "\"", ":", "1", "}", ",",
    "\"", "x", "\"", ":", "2", "}", ",", " ", "{", "\"", "x", "\"", ":", "3", "}", "]">>

Documents == {DocArray, DocObject, DocNested}

\* a validation error as the locator reads it: keyword, instancePath, params
LocatorError(keyword, instancePath, params) ==
  [keyword |-> keyword, instancePath |-> instancePath, params |-> params,
   message |-> <<keyword>>]

\* the errors that reach the locator
LocatorErrors ==
  {LocatorError("required", path, [missingProperty |-> <<"i", "d">>]) :
     path \in {<<>>, <<"/", "1">>, <<"/", "a", "b">>}}
  \cup {LocatorError("schema", path, [schemaId |-> <<"s">>]) :
          path \in {<<>>, <<"/", "1">>, <<"/", "2">>}}
  \cup {LocatorError("schema", <<>>, [schemaId |-> <<"q">>])}
  \cup {LocatorError("additionalProperties", path, [additionalProperty |-> <<"x">>]) :
          path \in {<<>>, <<"/", "1">>}}
  \cup {LocatorError("type", path, [type |-> <<"s", "t", "r", "i", "n", "g">>]) :
          path \in {<<"/", "0">>, <<"/", "0", "/", "x">>, <<"/", "1", "/", "x">>,
                    <<"/", "a", "b", "/", "x">>, <<"/", "0", "/", "a", "/", "x">>}}

\* lastIndex that the RegExp objects of a call are left with: the offset where
\* the range ends, 0 when nothing was found; the objects are local to the call
LastIndexAfter(text, range) ==
  IF range = <<>> THEN 0 ELSE offsetAt(text, range[1].end)

\* findErrorPosition(document, error.instancePath || '', error), as
\* validationErrorsToDiagnostics calls it for one error
Locate(text, error) ==
  /\ \E range \in {findErrorPosition(text, error.instancePath, error)} :
       /\ located' = [called |-> TRUE, text |-> text, error |-> error, range |-> range]
       /\ first' = IF first.called THEN first ELSE located'
       /\ regexLastIndex' = LastIndexAfter(text, range)
  /\ UNCHANGED <<registryVars, validation, restricted, pc, remaining, todo, inflight,
                 call, last, fetchVars, defaultFilePath, openVars, diagnosticVars,
                 overlapVars>>

NextLocate == \E text \in Documents, error \in LocatorErrors : Locate(text, error)

SpecLocate == Init /\ [][NextLocate]_vars

(***************************************************************************)
(* Root arrays whose elements are not all objects                          *)
(***************************************************************************)
\* texts whose root array holds a number before two objects, and a nested
\* array and a string before one object
DocMixed ==
  <<"[", "7", ",", " ", "{", "\"", "x", "\"", ":", "1", "}", ",", " ", "{", "\"", "x", "\"",
    ":", "2", "}", "]">>

DocSparse ==
  <<"[", "[", "0", "]", ",", " ", "\"", "}", "\"", ",", " ", "{", "\"", "x", "\"", ":", "1",
    "}", "]">>

\* the errors of the entities of these files: the instancePath of an error
\* of the element at index N of the array starts with N, its listSequence
MixedErrors ==
  {LocatorError("required", path, [missingProperty |-> <<"i", "d">>]) :
     path \in {<<"/", "1">>, <<"/", "2">>}}
  \cup {LocatorError("type", path, [type |-> <<"s", "t", "r", "i", "n", "g">>]) :
          path \in {<<"/", "1">>, <<"/", "2">>, <<"/", "1", "/", "x">>,
                    <<"/", "2", "/", "x">>}}

NextMixed == \E text \in {DocMixed, DocSparse}, error \in MixedErrors : Locate(text, error)

SpecMixed == Init /\ [][NextMixed]_vars

(***************************************************************************)
(* The diagnostics of a document                                           *)
(***************************************************************************)
\* new vscode.Range(0, 0, 0, 1)
DocumentStart ==
  [start |-> [line |-> 0, character |-> 0], end |-> [line |-> 0, character |-> 1]]

\* the fallback is the empty range at the start of the document
rangeOrEmpty(position) ==
  IF position # <<>> THEN position[1]
  ELSE [start |-> [line |-> 0, character |-> 0], end |-> [line |-> 0, character |-> 0]]

\* range = position if findErrorPosition returned one, the start of the
\* document otherwise
rangeOrStart(position) == IF position # <<>> THEN position[1] ELSE DocumentStart

\* validationErrorsToDiagnostics(errors, document): one diagnostic for each
\* error, pushed in the order of the errors
validationErrorsToDiagnostics(errors, text) ==
  [i \in DOMAIN errors |->
     [range |-> rangeOrStart(findErrorPosition(text, errors[i].instancePath, errors[i])),
      message |-> errors[i].message,
      severity |-> "Error",
      source |-> "GTS",
      code |-> errors[i].keyword]]

\* the documents of the editor
Uris == {"a.json", "b.json"}

\* the texts of the documents: the array, and a text that is no JSON
DiagnosticTexts == {DocArray, <<"r", "a", "w">>}

\* the errors that validateOpenDocument collected for a document: none, one
\* that the locator finds in the array, and with it one that it does not find
DiagnosticErrors ==
  LET typeOfS == LocatorError("schema", <<>>, [schemaId |-> <<"s">>])
      requiredInAb == LocatorError("required", <<"/", "a", "b">>,
                                   [missingProperty |-> <<"i", "d">>])
  IN {<<>>, <<typeOfS>>, <<typeOfS, requiredInAb>>, <<requiredInAb, typeOfS>>}

\* the end of validateOpenDocument(document) for a document with the text and
\* the collected errors: the diagnostics are set, or deleted without errors
PublishDiagnostics(uri, text, errors) ==
  /\ diagnostics' = IF Len(errors) > 0
                    THEN MapSet(diagnostics, uri, validationErrorsToDiagnostics(errors, text))
                    ELSE MapDelete(diagnostics, uri)
  /\ shown' = [op |-> "validated", uri |-> uri, text |-> text, errors |-> errors]
  /\ UNCHANGED <<registryVars, validation, restricted, pc, remaining, todo, inflight,
                 call, last, fetchVars, defaultFilePath, openVars, locatorVars,
                 overlapVars>>

\* validateOpenDocument(document) throws inside of its try block
ValidationFails(uri) ==
  /\ diagnostics' = MapDelete(diagnostics, uri)
  /\ shown' = [op |-> "failed", uri |-> uri, text |-> <<>>, errors |-> <<>>]
  /\ UNCHANGED <<registryVars, validation, restricted, pc, remaining, todo, inflight,
                 call, last, fetchVars, defaultFilePath, openVars, locatorVars,
                 overlapVars>>

\* onDidCloseTextDocument(doc)
CloseDocument(uri) ==
  /\ diagnostics' = MapDelete(diagnostics, uri)
  /\ shown' = [op |-> "closed", uri |-> uri, text |-> <<>>, errors |-> <<>>]
  /\ UNCHANGED <<registryVars, validation, restricted, pc, remaining, todo, inflight,
                 call, last, fetchVars, defaultFilePath, openVars, locatorVars,
                 overlapVars>>

NextDiagnostics ==
  \/ \E uri \in Uris, text \in DiagnosticTexts, errors \in DiagnosticErrors :
       PublishDiagnostics(uri, text, errors)
  \/ \E uri \in Uris : ValidationFails(uri)
  \/ \E uri \in Uris : CloseDocument(uri)

SpecDiagnostics == Init /\ [][NextDiagnostics]_vars

(***************************************************************************)
(* validateOpenDocument calls that overlap                                 *)
(***************************************************************************)
\* the texts that the open document takes while it is edited
OpenTexts == {InitialText, DocArray, DocObject}

\* the errors that validateOpenDocument collects after ingestFiles for the
\* content parsed from a text: one of an element of the array, one of the
\* nested object, none for the empty array
CollectedErrors(text) ==
  CASE text = DocArray ->
         <<LocatorError("type", <<"/", "1", "/", "x">>, [type |-> <<"s", "t", "r", "i", "n", "g">>])>>
    [] text = DocObject ->
         <<LocatorError("type", <<"/", "a", "b", "/", "x">>, [type |-> <<"s", "t", "r", "i", "n", "g">>])>>
    [] OTHER -> <<>>

\* the document that the calls are made for
OpenUri == "a.json"

\* validateOpenDocument(document) runs up to 'await registry.ingestFiles':
\* it has read the text and parsed the content from it
BeginValidation ==
  /\ Len(openCalls) < MaxOpenCalls
  /\ openCalls' = Append(openCalls,
                         [text |-> liveText, stage |-> "suspended", errors |-> <<>>,
                          overlaps |-> \E i \in DOMAIN openCalls :
                                         openCalls[i].stage = "suspended"])
  /\ UNCHANGED <<registryVars, validation, restricted, pc, remaining, todo, inflight,
                 call, last, fetchVars, defaultFilePath, openVars, diagnosticVars,
                 locatorVars, liveText>>

\* the user edits the document
EditDocument(text) ==
  /\ text # liveText
  /\ liveText' = text
  /\ UNCHANGED <<registryVars, validation, restricted, pc, remaining, todo, inflight,
                 call, last, fetchVars, defaultFilePath, openVars, diagnosticVars,
                 locatorVars, openCalls>>

\* ingestFiles of the i-th call resolves and the call runs to its end: the
\* errors are collected from the registry that ingested the content parsed
\* from the text read at the start, and the diagnostics of the document are
\* set or deleted; findErrorPosition reads document.getText() as it is now
EndValidation(i) ==
  /\ i \in DOMAIN openCalls
  /\ openCalls[i].stage = "suspended"
  /\ \E errors \in {CollectedErrors(openCalls[i].text)} :
        /\ diagnostics' =
             IF Len(errors) > 0
             THEN MapSet(diagnostics, OpenUri,
                         validationErrorsToDiagnostics(errors, liveText))
             ELSE MapDelete(diagnostics, OpenUri)
        /\ shown' = [op |-> "validated", uri |-> OpenUri,
                     text |-> liveText, errors |-> errors]
        /\ openCalls' = [openCalls EXCEPT ![i].stage = "done", ![i].errors = errors]
  /\ UNCHANGED <<registryVars, validation, restricted, pc, remaining, todo, inflight,
                 call, last, fetchVars, defaultFilePath, openVars, locatorVars, liveText>>

NextOverlap ==
  \/ BeginValidation
  \/ \E text \in OpenTexts : EditDocument(text)
  \/ \E i \in 1..MaxOpenCalls : EndValidation(i)

SpecOverlap == Init /\ [][NextOverlap]_vars


(***************************************************************************)
(* Vocabulary of the properties                                            *)
(***************************************************************************)
Ids == {"x", "y", "z"}

GlobalObjs == Range(MapValues(jsonObjs))
GlobalSchemas == Range(MapValues(jsonSchemas))
GlobalEntities == GlobalObjs \cup GlobalSchemas

KeyCount(m, k) == Cardinality({i \in DOMAIN m : m[i].k = k})

ListOf(m, path) == IF MapHas(m, path) THEN MapGet(m, path) ELSE <<>>

\* the entities that the per-file indices attribute to the path
Listed(path) ==
  Range(ListOf(jsonFileObjs, path)) \cup Range(ListOf(jsonFileSchemas, path))

\* the loop over the elements reaches element i
Reached(content, i) == \A j \in 1..i : ~content.elems[j].throws

\* the content defines an entity with the identifier
Defines(content, id) ==
  /\ content.valid
  /\ \E i \in DOMAIN content.elems :
       /\ Reached(content, i)
       /\ content.elems[i].gts
       /\ content.elems[i].id = id

\* the entities of a kind that a content holds, as the latest objects of the path
Extracted(path, content, kind) ==
  IF ~content.valid THEN <<>>
  ELSE LET picked == SelectSeq([i \in DOMAIN content.elems |-> i],
                               LAMBDA i : /\ Reached(content, i)
                                          /\ content.elems[i].gts
                                          /\ content.elems[i].kind = kind)
       IN [n \in DOMAIN picked |->
             [id |-> content.elems[picked[n]].id, kind |-> kind, path |-> path,
              gen |-> 0,
              listSequence |-> IF content.isArray THEN picked[n] - 1 ELSE Undefined,
              schemaId |-> content.elems[picked[n]].schemaId,
              gtsRefs |-> content.elems[picked[n]].gtsRefs, gts |-> TRUE]]

Returned == pc = "idle" /\ call.outcome = "resolved"

\* the 'GTS reference not found' errors for an identifier in a list of errors
RefNotFound(errors, id) ==
  {k \in DOMAIN errors :
     /\ errors[k].message = <<"GTS reference not found: ", id>>
     /\ "gtsId" \in DOMAIN errors[k].params
     /\ errors[k].params.gtsId = id}

\* the 'schema' errors that carry the schema identifier
SchemaNotFound(errors, schemaId) ==
  {k \in DOMAIN errors :
     /\ errors[k].keyword = "schema"
     /\ "schemaId" \in DOMAIN errors[k].params
     /\ errors[k].params.schemaId = schemaId}

\* the declared schema of the object is not in the schema index
SchemaMissing(o) == o.schemaId # "" /\ ~MapHas(jsonSchemas, o.schemaId)

(***************************************************************************)
(* C1                                                                      *)
(***************************************************************************)
\* C1: when the file processed last defines an identifier that another path
\* also defines, the global index holds exactly one entity under that
\* identifier and it is the one of the file processed last.
C1_LastIngestedWins ==
  \A id \in Ids, other \in RealPaths :
    ( /\ last.op = "processFileContent"
      /\ other # last.path
      /\ Defines(last.content, id)
      /\ \E e \in Listed(other) : e.id = id )
    => /\ KeyCount(jsonObjs, id) + KeyCount(jsonSchemas, id) = 1
       /\ \A e \in GlobalEntities : e.id = id => e.path = last.path /\ e.gen = 0

(***************************************************************************)
(* C2                                                                      *)
(***************************************************************************)
\* C2: no identifier is a key of jsonObjs and of jsonSchemas at the same time.
C2_IdsUniqueAcrossKinds == MapKeys(jsonObjs) \cap MapKeys(jsonSchemas) = {}

(***************************************************************************)
(* C3                                                                      *)
(***************************************************************************)
NoTraceOf(path) ==
  /\ \A e \in LiveEntities(Registry) : e.path # path
  /\ ~MapHas(jsonFiles, path)
  /\ ~MapHas(invalidFiles, path)

\* C3: after invalidateFile(P) no entity owned by P is in any of the four
\* entity indices and P is a key of neither jsonFiles nor invalidFiles.
C3_InvalidationComplete == last.op = "invalidateFile" => NoTraceOf(last.path)

\* invalidateFile acted on a path that owned entities, and entities of another
\* path are still indexed
C3_Witness ==
  /\ last.op = "invalidateFile"
  /\ last.owned
  /\ GlobalEntities # {}

(***************************************************************************)
(* C4                                                                      *)
(***************************************************************************)
\* C4: no path is a key of both jsonFiles and invalidFiles.
C4_FilesDisjoint == MapKeys(jsonFiles) \cap MapKeys(invalidFiles) = {}

\* a path that owned entities was re-ingested with invalid content while
\* another path is in jsonFiles
C4_Witness ==
  /\ last.op = "processFileContent"
  /\ last.owned
  /\ MapHas(invalidFiles, last.path)
  /\ jsonFiles # <<>>

(***************************************************************************)
(* C5                                                                      *)
(***************************************************************************)
\* C5: after processFileContent(P, content) the per-file lists of P hold
\* exactly the entities of the new content, no object that an earlier
\* processing of P created is reachable, and P is in invalidFiles, in
\* jsonFiles or in neither as the new content decides.
C5_WhollyReplaced ==
  last.op = "processFileContent" =>
    /\ ListOf(jsonFileObjs, last.path) = Extracted(last.path, last.content, "obj")
    /\ ListOf(jsonFileSchemas, last.path) = Extracted(last.path, last.content, "schema")
    /\ \A e \in LiveEntities(Registry) : e.path = last.path => e.gen = 0
    /\ MapHas(invalidFiles, last.path) <=> ~last.content.valid
    /\ MapHas(jsonFiles, last.path) <=>
         /\ last.content.valid
         /\ Reached(last.content, Len(last.content.elems))
         /\ \E i \in DOMAIN last.content.elems : last.content.elems[i].gts
    /\ \A m \in {jsonFiles, invalidFiles} :
         MapHas(m, last.path) => MapGet(m, last.path).gen = 0

\* a path that owned entities was re-ingested and owns entities again
C5_Witness ==
  /\ last.op = "processFileContent"
  /\ last.owned
  /\ ListOf(jsonFileObjs, last.path) # <<>>

(***************************************************************************)
(* C6                                                                      *)
(***************************************************************************)
Started(e) == e \in inflight \/ validation[e].runs > 0

\* C6: in a validation pass at most one validateEntity call is in flight, and
\* an object's validation has started only if the validation of every schema
\* of jsonSchemas has completed.
C6_SchemasThenObjs ==
  pc \in {"schemas", "objs"} =>
    /\ Cardinality(inflight) <= 1
    /\ \A o \in GlobalObjs :
         Started(o) =>
           \A sch \in GlobalSchemas : sch \notin inflight /\ validation[sch].runs > 0

\* an object is being validated against a schema while schemas are registered
C6_Witness ==
  /\ pc = "objs"
  /\ \E o \in inflight : o.kind = "obj"
  /\ GlobalSchemas # {}

(***************************************************************************)
(* C7                                                                      *)
(***************************************************************************)
\* C7: no entity is validated while files of the batch remain, the pass runs
\* once, and when ingestFiles returns every entity of jsonSchemas and jsonObjs
\* has been validated exactly once.
C7_OnePassAfterBatch ==
  /\ pc = "files" =>
       /\ call.passes = 0
       /\ inflight = {}
       /\ \A e \in DOMAIN validation : validation[e].runs = 0
  /\ pc \in {"schemas", "objs"} => remaining = 0 /\ call.passes = 1
  /\ Returned =>
       /\ remaining = 0
       /\ call.passes = 1
       /\ \A e \in GlobalEntities : validation[e].runs = 1

\* ingestFiles returned with schemas and objects of two files validated
C7_Witness ==
  /\ Returned
  /\ GlobalSchemas # {}
  /\ GlobalObjs # {}
  /\ Cardinality({e.path : e \in GlobalEntities}) = 2

(***************************************************************************)
(* C8                                                                      *)
(***************************************************************************)
\* C8: after ingestion and validation, an entity has no 'GTS reference not
\* found' error for a referenced identifier that is registered and exactly
\* one for a referenced identifier that is not.
C8_RefErrorsExact ==
  Returned =>
    \A e \in GlobalEntities : \A i \in DOMAIN e.gtsRefs :
      Cardinality(RefNotFound(validation[e].errors, e.gtsRefs[i].id))
        = IF refExists(Registry, e.gtsRefs[i].id) THEN 0 ELSE 1

(***************************************************************************)
(* C9                                                                      *)
(***************************************************************************)
SchemaNotFoundReported(o) ==
  /\ ~validation[o].valid
  /\ Cardinality(SchemaNotFound(validation[o].errors, o.schemaId)) = 1
  /\ \A k \in DOMAIN validation[o].errors :
       validation[o].errors[k].keyword \in {"", "schema"}

\* C9 as stated: an object whose declared schema is not in jsonSchemas is
\* invalid, with one 'schema' error that carries the identifier.
C9_SchemaNotFound ==
  Returned => \A o \in GlobalObjs : SchemaMissing(o) => SchemaNotFoundReported(o)

\* C9 amended: the same in a host that is not restricted, where no
\* structural validation is pending for such an object either.
C9_SchemaNotFoundUnrestricted ==
  ~restricted =>
    /\ Returned => \A o \in GlobalObjs : SchemaMissing(o) => SchemaNotFoundReported(o)
    /\ \A o \in inflight : o.kind = "obj" => ~SchemaMissing(o)

\* an unrestricted host validated an object whose schema is not registered
C9_Witness ==
  /\ ~restricted
  /\ Returned
  /\ \E o \in GlobalObjs : SchemaMissing(o)

(***************************************************************************)
(* C10                                                                     *)
(***************************************************************************)
\* C10: once a file of the batch raised, ingestFiles does not reject, the loop
\* visits every remaining file and the validation pass runs.
C10_FileFailureCaught ==
  call.raised =>
    /\ call.outcome # "rejected"
    /\ pc = "idle" => call.outcome = "resolved" /\ call.passes = 1 /\ remaining = 0

\* ingestFiles returned after a file raised, with entities validated
C10_Witness ==
  /\ Returned
  /\ call.raised
  /\ \E e \in GlobalEntities : validation[e].runs = 1

(***************************************************************************)
(* C11                                                                     *)
(***************************************************************************)
\* C11: after processFileContent(P, content) with content that fails the file
\* validity check, P is in invalidFiles, no entity owned by P is in any of the
\* four entity indices and P is not in jsonFiles.
C11_InvalidFileRecorded ==
  (last.op = "processFileContent" /\ ~last.content.valid) =>
    /\ MapHas(invalidFiles, last.path)
    /\ MapGet(invalidFiles, last.path).gen = 0
    /\ \A e \in LiveEntities(Registry) : e.path # last.path
    /\ ~MapHas(jsonFiles, last.path)

\* a path that owned entities was processed again with invalid content
C11_Witness ==
  /\ last.op = "processFileContent"
  /\ ~last.content.valid
  /\ last.owned
  /\ MapHas(invalidFiles, last.path)
  /\ GlobalEntities = {}

(***************************************************************************)
(* C12                                                                     *)
(***************************************************************************)
\* the error that a catch block of validateEntity records
ThrewError(entity, err) ==
  /\ err.keyword = (IF entity.kind = "schema" THEN "schema" ELSE "validation")
  /\ "error" \in DOMAIN err.params

\* C12: ingestFiles is never rejected by its validation pass, and when
\* compileAsync or the validator raises for an entity, the failure ends as the
\* last error of that entity's own result, no other result changes, and the
\* pass goes on with the entities after it.
C12_ValidationNeverRejects ==
  /\ [](call.outcome # "rejected")
  /\ [][\A entity \in inflight :
          ValidateEnd(entity, [kind |-> "threw"]) =>
            /\ ~validation'[entity].valid
            /\ validation'[entity].errors # <<>>
            /\ ThrewError(entity, validation'[entity].errors[Len(validation'[entity].errors)])
            /\ \A e \in DOMAIN validation \ {entity} : validation'[e] = validation[e]
            /\ pc' = pc
            /\ todo' = todo]_vars
  /\ [](Returned => \A e \in GlobalEntities : validation[e].runs = 1)

\* ingestFiles returned after compileAsync raised for a schema, with an object
\* validated after it
C12_Witness ==
  /\ Returned
  /\ \E sch \in GlobalSchemas :
       /\ validation[sch].errors # <<>>
       /\ ThrewError(sch, validation[sch].errors[Len(validation[sch].errors)])
       /\ \E k \in DOMAIN validation[sch].errors :
            validation[sch].errors[k].message = <<"Invalid JSON Schema: ", "compile">>
  /\ \E o \in GlobalObjs : validation[o].runs = 1
(***************************************************************************)
(* C13                                                                     *)
(***************************************************************************)
StripSlash(path) == IF path # <<>> /\ path[1] = "/" THEN Tail(path) ELSE path

\* the two paths name the same resource
SameKey(p, q) == StripSlash(p) = StripSlash(q)

\* the earlier calls whose path names the same resource as that of call i
PriorCalls(i) == {j \in 1..(i - 1) : SameKey(fetchCalls[j].path, fetchCalls[i].path)}

Latest(S) == CHOOSE j \in S : \A k \in S : k <= j

\* C13: a fetchJson call without force whose key was requested before starts
\* no retrieval and receives the promise of the latest call for that key; a
\* call with force, or the first call for a key, starts one retrieval for the
\* leading-slash key, and the cache entry of the key is the promise that the
\* latest call for it received.
C13_SingleFlight ==
  /\ \A i \in DOMAIN fetchCalls :
       LET c == fetchCalls[i] IN
       /\ c.promise \in DOMAIN retrievals
       /\ retrievals[c.promise].key = <<"/">> \o StripSlash(c.path)
       /\ IF c.force \/ PriorCalls(i) = {}
          THEN /\ c.started
               /\ \A j \in 1..(i - 1) : fetchCalls[j].promise # c.promise
          ELSE /\ ~c.started
               /\ c.promise = fetchCalls[Latest(PriorCalls(i))].promise
       /\ (\A j \in (i + 1)..Len(fetchCalls) : ~SameKey(fetchCalls[j].path, c.path))
            => /\ MapHas(fetchCache, <<"/">> \o StripSlash(c.path))
               /\ MapGet(fetchCache, <<"/">> \o StripSlash(c.path)) = c.promise
  /\ Len(retrievals) = Cardinality({i \in DOMAIN fetchCalls : fetchCalls[i].started})

\* 'a/b' and '/a/b' were fetched without force and share one retrieval, which
\* has settled, and a forced call replaced the cache entry afterwards
C13_Witness ==
  /\ Len(fetchCalls) = 3
  /\ fetchCalls[1].path # fetchCalls[2].path
  /\ SameKey(fetchCalls[1].path, fetchCalls[2].path)
  /\ ~fetchCalls[2].force
  /\ fetchCalls[2].promise = fetchCalls[1].promise
  /\ retrievals[fetchCalls[1].promise].state # "pending"
  /\ fetchCalls[3].force
  /\ SameKey(fetchCalls[3].path, fetchCalls[1].path)
  /\ MapGet(fetchCache, fetchKey(fetchCalls[3].path)) = 2
(***************************************************************************)
(* C14                                                                     *)
(***************************************************************************)
\* C14: after setDefaultFile with an explicit path the default is that path;
\* after setDefaultFile without one it is the key of the first entry of
\* jsonFiles, or none when jsonFiles is empty; getDefaultFilePath returns it.
C14_DefaultFile ==
  last.op = "setDefaultFile" =>
    /\ defaultFilePath =
         (IF last.path # <<>> THEN Str(last.path)
          ELSE IF jsonFiles = <<>> THEN Null
          ELSE Str(jsonFiles[1].k))
    /\ getDefaultFilePath(defaultFilePath) = defaultFilePath

\* setDefaultFile fell back to the first of two files, which is not the one
\* whose path was ingested first
C14_Witness ==
  /\ last.op = "setDefaultFile"
  /\ last.path = <<>>
  /\ Len(jsonFiles) = 2
  /\ defaultFilePath = Str(PathB)
  /\ jsonFiles[2].k = PathA
(***************************************************************************)
(* C15                                                                     *)
(***************************************************************************)
\* the entities of the document that the global maps hold, objects first
DocumentEntities ==
  SelectSeq(MapValues(jsonObjs) \o MapValues(jsonSchemas),
            LAMBDA e : e.path = document.path)

\* the instancePath that the claim expects for an error of the entity
ExpectedPath(e, instancePath) ==
  IF e.listSequence = Undefined THEN instancePath
  ELSE <<"/", DigitChars[e.listSequence + 1]>>
         \o (IF instancePath \in {<<>>, <<"/">>} THEN <<>> ELSE instancePath)

RECURSIVE ExpectedErrors(_)
ExpectedErrors(entities) ==
  IF entities = <<>> THEN <<>>
  ELSE LET e == Head(entities) IN
       [i \in DOMAIN validation[e].errors |->
          [validation[e].errors[i] EXCEPT !.instancePath = ExpectedPath(e, @)]]
       \o ExpectedErrors(Tail(entities))

\* C15: the errors that validateOpenDocument surfaces for the entities of the
\* document are the validation errors of those entities, with '/k' put before
\* the reported instancePath ('/k' alone for an empty path or '/') when the
\* entity has listSequence k, and unchanged when it has none.
C15_PrefixedByListSequence ==
  (document.stage = "collected" /\ ~MapHas(invalidFiles, document.path)) =>
    surfaced = ExpectedErrors(DocumentEntities)

\* the document is an array whose second entity has an error with a path,
\* and one with an empty path or '/', that were surfaced
C15_Witness ==
  /\ document.stage = "collected"
  /\ \E e \in Range(DocumentEntities) :
       /\ e.listSequence = 1
       /\ \E i, j \in DOMAIN validation[e].errors :
            /\ Len(validation[e].errors[i].instancePath) > 1
            /\ validation[e].errors[j].instancePath \in {<<>>, <<"/">>}
  /\ \E k \in DOMAIN surfaced : surfaced[k].instancePath = <<"/", "1">>
  /\ \E k \in DOMAIN surfaced : Len(surfaced[k].instancePath) > 3

\* the state of the program outside of the bookkeeping of the locator calls
ProgramVars ==
  <<registryVars, validation, restricted, pc, remaining, todo, inflight, call, last,
    fetchVars, defaultFilePath, openVars, diagnosticVars, overlapVars>>

\* the latest call of the locator was given what its first call was given
SameAsFirst ==
  /\ first.called
  /\ located.called
  /\ located.text = first.text
  /\ located.error = first.error

DocArrayObjects ==
  {[path |-> <<"/", "0">>, brace |-> [line |-> 0, character |-> 1],
    id |-> <<[start |-> [line |-> 0, character |-> 3], end |-> [line |-> 0, character |-> 5]]>>, type |-> <<>>],
   [path |-> <<"/", "1">>, brace |-> [line |-> 1, character |-> 1],
    id |-> <<>>, type |-> <<[start |-> [line |-> 1, character |-> 3], end |-> [line |-> 1, character |-> 7]]>>],
   [path |-> <<"/", "2">>, brace |-> [line |-> 2, character |-> 1],
    id |-> <<>>, type |-> <<>>]}

DocObjectObjects ==
  {[path |-> <<>>, brace |-> [line |-> 0, character |-> 0],
    id |-> <<>>, type |-> <<[start |-> [line |-> 1, character |-> 2], end |-> [line |-> 1, character |-> 6]]>>],
   [path |-> <<"/", "a", "b">>, brace |-> [line |-> 0, character |-> 7],
    id |-> <<>>, type |-> <<>>]}

DocNestedObjects ==
  {[path |-> <<"/", "0">>, brace |-> [line |-> 0, character |-> 1],
    id |-> <<>>, type |-> <<>>],
   [path |-> <<"/", "0", "/", "a">>, brace |-> [line |-> 0, character |-> 17],
    id |-> <<>>, type |-> <<>>],
   [path |-> <<"/", "1">>, brace |-> [line |-> 0, character |-> 42],
    id |-> <<>>, type |-> <<>>]}

DocMixedObjects ==
  {[path |-> <<"/", "1">>, brace |-> [line |-> 0, character |-> 4],
    id |-> <<>>, type |-> <<>>],
   [path |-> <<"/", "2">>, brace |-> [line |-> 0, character |-> 13],
    id |-> <<>>, type |-> <<>>]}

DocSparseObjects ==
  {[path |-> <<"/", "2">>, brace |-> [line |-> 0, character |-> 11],
    id |-> <<>>, type |-> <<>>]}

ObjectsOf(text) ==
  CASE text = DocArray -> DocArrayObjects
    [] text = DocObject -> DocObjectObjects
    [] text = DocNested -> DocNestedObjects
    [] text = DocMixed -> DocMixedObjects
    [] text = DocSparse -> DocSparseObjects
    [] OTHER -> {}

\* the keys of the documents by the JSON pointer of their property: the range
\* of the name between its quotes
DocArrayKeys ==
  {[path |-> <<"/", "0", "/", "i", "d">>, range |-> [start |-> [line |-> 0, character |-> 3], end |-> [line |-> 0, character |-> 5]]],
   [path |-> <<"/", "0", "/", "x">>, range |-> [start |-> [line |-> 0, character |-> 12], end |-> [line |-> 0, character |-> 13]]],
   [path |-> <<"/", "1", "/", "t", "y", "p", "e">>, range |-> [start |-> [line |-> 1, character |-> 3], end |-> [line |-> 1, character |-> 7]]],
   [path |-> <<"/", "1", "/", "x">>, range |-> [start |-> [line |-> 1, character |-> 14], end |-> [line |-> 1, character |-> 15]]],
   [path |-> <<"/", "2", "/", "x">>, range |-> [start |-> [line |-> 2, character |-> 3], end |-> [line |-> 2, character |-> 4]]]}

DocObjectKeys ==
  {[path |-> <<"/", "a", "b">>, range |-> [start |-> [line |-> 0, character |-> 2], end |-> [line |-> 0, character |-> 4]]],
   [path |-> <<"/", "a", "b", "/", "x">>, range |-> [start |-> [line |-> 0, character |-> 9], end |-> [line |-> 0, character |-> 10]]],
   [path |-> <<"/", "t", "y", "p", "e">>, range |-> [start |-> [line |-> 1, character |-> 2], end |-> [line |-> 1, character |-> 6]]]}

DocNestedKeys ==
  {[path |-> <<"/", "0", "/", "s">>, range |-> [start |-> [line |-> 0, character |-> 3], end |-> [line |-> 0, character |-> 4]]],
   [path |-> <<"/", "0", "/", "a">>, range |-> [start |-> [line |-> 0, character |-> 14], end |-> [line |-> 0, character |-> 15]]],
   [path |-> <<"/", "0", "/", "a", "/", "t">>, range |-> [start |-> [line |-> 0, character |-> 19], end |-> [line |-> 0, character |-> 20]]],
   [path |-> <<"/", "0", "/", "a", "/", "x">>, range |-> [start |-> [line |-> 0, character |-> 28], end |-> [line |-> 0, character |-> 29]]],
   [path |-> <<"/", "0", "/", "x">>, range |-> [start |-> [line |-> 0, character |-> 35], end |-> [line |-> 0, character |-> 36]]],
   [path |-> <<"/", "1", "/", "x">>, range |-> [start |-> [line |-> 0, character |-> 44], end |-> [line |-> 0, character |-> 45]]]}

DocMixedKeys ==
  {[path |-> <<"/", "1", "/", "x">>, range |-> [start |-> [line |-> 0, character |-> 6], end |-> [line |-> 0, character |-> 7]]],
   [path |-> <<"/", "2", "/", "x">>, range |-> [start |-> [line |-> 0, character |-> 15], end |-> [line |-> 0, character |-> 16]]]}

DocSparseKeys ==
  {[path |-> <<"/", "2", "/", "x">>, range |-> [start |-> [line |-> 0, character |-> 13], end |-> [line |-> 0, character |-> 14]]]}

KeysOf(text) ==
  CASE text = DocArray -> DocArrayKeys
    [] text = DocObject -> DocObjectKeys
    [] text = DocNested -> DocNestedKeys
    [] text = DocMixed -> DocMixedKeys
    [] text = DocSparse -> DocSparseKeys
    [] OTHER -> {}

\* the objects of the documents by their JSON pointer: the offset of the
\* opening brace and the offset after the matching closing brace
DocArraySpans ==
  {[path |-> <<"/", "0">>, start |-> 1, end |-> 17],
   [path |-> <<"/", "1">>, start |-> 20, end |-> 38],
   [path |-> <<"/", "2">>, start |-> 41, end |-> 48]}

DocObjectSpans ==
  {[path |-> <<>>, start |-> 0, end |-> 30],
   [path |-> <<"/", "a", "b">>, start |-> 7, end |-> 15]}

DocNestedSpans ==
  {[path |-> <<"/", "0">>, start |-> 1, end |-> 40],
   [path |-> <<"/", "0", "/", "a">>, start |-> 17, end |-> 33],
   [path |-> <<"/", "1">>, start |-> 42, end |-> 49]}

SpansOf(text) ==
  CASE text = DocArray -> DocArraySpans
    [] text = DocObject -> DocObjectSpans
    [] text = DocNested -> DocNestedSpans
    [] OTHER -> {}

\* the position of the first '{' of the documents
FirstBraceOf(text) ==
  CASE text = DocArray -> [line |-> 0, character |-> 1]
    [] text = DocObject -> [line |-> 0, character |-> 0]
    [] text = DocNested -> [line |-> 0, character |-> 1]

\* the range of one character at a position
CharacterAt(pos) ==
  <<[start |-> pos, end |-> [line |-> pos.line, character |-> pos.character + 1]]>>

\* the latest call of the locator was for an error of the 'required' branch
RequiredLocated ==
  /\ located.called
  /\ located.error.keyword = "required"
  /\ "missingProperty" \in DOMAIN located.error.params

\* C18: for a 'required' error with params.missingProperty the locator returns
\* the one-character range of an opening brace: of the first '{' of the document
\* for an empty instancePath, of the object that instancePath addresses (by
\* array index or property names) otherwise.
C18_RequiredAtOpeningBrace ==
  RequiredLocated =>
    /\ located.error.instancePath = <<>> =>
         located.range = CharacterAt(FirstBraceOf(located.text))
    /\ \A o \in ObjectsOf(located.text) :
         (o.path = located.error.instancePath /\ o.path # <<>>) =>
           located.range = CharacterAt(o.brace)

\* the segments of an instancePath
Segments(instancePath) == Split(StripLeadingSlash(instancePath))

\* the latest call of the locator was for an error that no branch before the
\* generic fallback handles
GenericLocated ==
  /\ located.called
  /\ located.error.keyword \notin {"schema", "required", "additionalProperties"}

\* instancePath is '/N/k': an index into the root array, then a key
ElementKeyPath(instancePath) ==
  /\ Len(Segments(instancePath)) = 2
  /\ IsIndex(Segments(instancePath)[1])
  /\ ~IsIndex(Segments(instancePath)[2])

\* C19: for a root array of objects and an error of the generic fallback with
\* instancePath '/N/k', k a key of the N-th element, the locator returns the
\* range of that key of the N-th element.
C19_KeyOfNthElement ==
  (GenericLocated /\ ElementKeyPath(located.error.instancePath)) =>
    \A key \in KeysOf(located.text) :
      key.path = located.error.instancePath => located.range = <<key.range>>

\* instancePath is '/N': a single index into the root array
ElementPath(instancePath) ==
  /\ Len(Segments(instancePath)) = 1
  /\ IsIndex(Segments(instancePath)[1])

\* the latest call of the locator resolved a single index without brace
\* highlighting: a 'schema' error, or the generic fallback
ElementLocated ==
  /\ located.called
  /\ located.error.keyword \notin {"required", "additionalProperties"}
  /\ ElementPath(located.error.instancePath)

\* C20: for a single array index N without brace highlighting the locator
\* returns the range of the "id" key of the N-th top-level object when it has
\* a string "id", else of its "type" key when it has a string "type", else of
\* its opening brace.
C20_IdThenTypeThenBrace ==
  ElementLocated =>
    \A o \in ObjectsOf(located.text) :
      o.path = located.error.instancePath =>
        located.range = IF o.id # <<>> THEN o.id
                        ELSE IF o.type # <<>> THEN o.type
                        ELSE CharacterAt(o.brace)

\* the diagnostics that the claim describes for a list of errors of a text
RECURSIVE ExpectedDiagnostics(_, _)
ExpectedDiagnostics(errors, text) ==
  IF errors = <<>> THEN <<>>
  ELSE LET error == Head(errors)
           position == findErrorPosition(text, error.instancePath, error)
       IN <<[range |-> IF position = <<>>
                       THEN [start |-> [line |-> 0, character |-> 0],
                             end |-> [line |-> 0, character |-> 1]]
                       ELSE position[1],
             message |-> error.message, severity |-> "Error", source |-> "GTS",
             code |-> error.keyword]>>
          \o ExpectedDiagnostics(Tail(errors), text)

\* C16: after validateOpenDocument completed for a document, the document has
\* no entry in the diagnostics when it has no validation error, and with
\* n >= 1 errors its entry holds n diagnostics, one for each error in the order
\* of the errors, each with the located range or, when the locator returns
\* none, the range (0,0)-(0,1).
C16_OneDiagnosticPerError ==
  shown.op = "validated" =>
    IF shown.errors = <<>>
    THEN ~MapHas(diagnostics, shown.uri)
    ELSE /\ MapHas(diagnostics, shown.uri)
         /\ Len(MapGet(diagnostics, shown.uri)) = Len(shown.errors)
         /\ MapGet(diagnostics, shown.uri) = ExpectedDiagnostics(shown.errors, shown.text)

\* a document with two errors, one that the locator finds off the start of the
\* document and one that it does not find, was validated
C16_Witness ==
  /\ shown.op = "validated"
  /\ Len(shown.errors) = 2
  /\ MapHas(diagnostics, shown.uri)
  /\ \E i, j \in DOMAIN MapGet(diagnostics, shown.uri) :
       /\ MapGet(diagnostics, shown.uri)[i].range = DocumentStart
       /\ MapGet(diagnostics, shown.uri)[j].range.start.line = 1

(***************************************************************************)
(* C24                                                                     *)
(***************************************************************************)
\* the validation pass is running or ingestFiles returned
InPass == pc \in {"schemas", "objs"} \/ Returned

\* the errors are the 'GTS reference not found' errors of the references of
\* the entity that are registered nowhere, one for each
OnlyMissingRefErrors(e) ==
  /\ \A i \in DOMAIN e.gtsRefs :
       Cardinality(RefNotFound(validation[e].errors, e.gtsRefs[i].id))
         = IF refExists(Registry, e.gtsRefs[i].id) THEN 0 ELSE 1
  /\ \A k \in DOMAIN validation[e].errors :
       /\ validation[e].errors[k].keyword = ""
       /\ \E i \in DOMAIN e.gtsRefs :
            k \in RefNotFound(validation[e].errors, e.gtsRefs[i].id)

\* C24: in a restricted host validateEntity checks only that the references
\* exist: no schema is compiled or run, the errors of a validated entity are
\* its 'GTS reference not found' errors, and valid is false iff a reference
\* is missing.
C24_RestrictedRefsOnly ==
  restricted =>
    /\ inflight = {}
    /\ InPass =>
         \A e \in GlobalEntities :
           validation[e].runs > 0 =>
             /\ OnlyMissingRefErrors(e)
             /\ validation[e].valid <=>
                  \A i \in DOMAIN e.gtsRefs : refExists(Registry, e.gtsRefs[i].id)

\* a restricted host validated a schema with a missing reference and an
\* object that declares a registered schema
C24_Witness ==
  /\ restricted
  /\ Returned
  /\ \E sch \in GlobalSchemas :
       /\ validation[sch].runs = 1
       /\ ~validation[sch].valid
  /\ \E o \in GlobalObjs :
       /\ validation[o].runs = 1
       /\ o.schemaId # ""
       /\ MapHas(jsonSchemas, o.schemaId)

(***************************************************************************)
(* C25                                                                     *)
(***************************************************************************)
\* the errors of keyword 'schema' in a list of errors
SchemaErrors(errors) == {k \in DOMAIN errors : errors[k].keyword = "schema"}

\* the result has valid false and one 'schema' error, whose message holds the
\* text of the failure
CompileFailureReported(v, text) ==
  /\ ~v.valid
  /\ Cardinality(SchemaErrors(v.errors)) = 1
  /\ \A k \in SchemaErrors(v.errors) :
       \E i \in DOMAIN v.errors[k].message : v.errors[k].message[i] = text

\* C25: when the content of a Schema entity does not compile (a nested $ref
\* that the loader cannot resolve included) validateEntity leaves it invalid
\* with one error of keyword 'schema' whose message holds the failure text of
\* the compiler; when it compiles no 'schema' error is recorded.
C25_CompileFailureIsOneSchemaError ==
  [][\A entity \in inflight :
       entity.kind = "schema" =>
         /\ ValidateEnd(entity, [kind |-> "threw"]) =>
              CompileFailureReported(validation'[entity], "compile")
         /\ ValidateEnd(entity, [kind |-> "compiled"]) =>
              SchemaErrors(validation'[entity].errors) = {}]_vars

\* a schema with a missing reference did not compile
C25_Witness ==
  /\ ~restricted
  /\ \E sch \in GlobalSchemas :
       /\ validation[sch].runs = 1
       /\ SchemaErrors(validation[sch].errors) # {}
       /\ Len(validation[sch].errors) = 2

(***************************************************************************)
(* C26                                                                     *)
(***************************************************************************)
\* C26: a path is a key of jsonFiles only if the per-file lists of the path
\* hold an entity: a qualifying entity was extracted from the current content
\* of the file.
C26_RegisteredOnlyWithEntities ==
  \A path \in MapKeys(jsonFiles) :
    /\ Listed(path) # {}
    /\ \A e \in Listed(path) : e.gen = 0

\* a file without a qualifying entity was processed and is not registered,
\* while another file is
C26_Witness ==
  /\ last.op = "processFileContent"
  /\ last.content.valid
  /\ last.content.elems # <<>>
  /\ \A i \in DOMAIN last.content.elems : ~last.content.elems[i].gts
  /\ ~last.raised
  /\ ~MapHas(jsonFiles, last.path)
  /\ jsonFiles # <<>>

(***************************************************************************)
(* C28                                                                     *)
(***************************************************************************)
\* C28: when validateEntity has completed for an entity, valid is true if and
\* only if errors is empty.
C28_ValidIffNoErrors ==
  InPass =>
    \A e \in GlobalEntities :
      (validation[e].runs > 0 /\ e \notin inflight) =>
        (validation[e].valid <=> validation[e].errors = <<>>)

(***************************************************************************)
(* C29                                                                     *)
(***************************************************************************)
\* C29: invalidateFile(P) removes from jsonObjs and jsonSchemas only entities
\* that P owns: an entity of another path that was in a global map before the
\* call is there after it, also when P had defined the same identifier before.
C29_OnlyOwnEntitiesRemoved ==
  [][\A path \in RealPaths :
       InvalidateFile(path) =>
         \A e \in GlobalEntities : e.path # path => e \in GlobalEntities']_vars

(***************************************************************************)
(* C30                                                                     *)
(***************************************************************************)
\* the per-file lists and the global map of a kind agree
IndicesAgree(global, perFile) ==
  /\ \A path \in Paths : \A e \in Range(ListOf(perFile, path)) :
       /\ e.path = path
       /\ MapHas(global, e.id)
       /\ MapGet(global, e.id) = e
  /\ \A e \in Range(MapValues(global)) : e \in Range(ListOf(perFile, e.path))

\* C30: between the calls of ingestFiles and invalidateFile an entity is in
\* jsonFileObjs[P] (jsonFileSchemas[P]) if and only if it is the value under
\* its identifier in jsonObjs (jsonSchemas) and P is the path of its file, and
\* the file of every entity of a global map is registered in jsonFiles.
C30_IndicesAgree ==
  pc = "idle" =>
    /\ IndicesAgree(jsonObjs, jsonFileObjs)
    /\ IndicesAgree(jsonSchemas, jsonFileSchemas)
    /\ \A e \in GlobalEntities : MapHas(jsonFiles, e.path)

(***************************************************************************)
(* C22                                                                     *)
(***************************************************************************)
\* the name of the key that a JSON pointer ends with
LastSegment(path) == Segments(path)[Len(Segments(path))]

\* position a is not after position b
NotAfter(a, b) ==
  a.line < b.line \/ (a.line = b.line /\ a.character <= b.character)

\* the keys named p of a text, and the first of them in the text
KeysNamed(text, p) == {key \in KeysOf(text) : LastSegment(key.path) = p}

FirstKeyNamed(text, p) ==
  CHOOSE key \in KeysNamed(text, p) :
    \A other \in KeysNamed(text, p) : NotAfter(key.range.start, other.range.start)

\* the characters of a text that a range covers
Covered(text, range) ==
  Substring(text, offsetAt(text, range.start), offsetAt(text, range.end))

\* the latest call of the locator was for an 'additionalProperties' error
\* that names the property
AdditionalLocated ==
  /\ located.called
  /\ located.error.keyword = "additionalProperties"
  /\ "additionalProperty" \in DOMAIN located.error.params

\* C22: for an 'additionalProperties' error with params.additionalProperty = p
\* and a text that has p as a quoted key followed by a colon, the locator
\* returns the range of the characters of p of the first such key, without the
\* quotes and the value, whatever instancePath the error has: the rule comes
\* before the 'required' rule and before the navigation by instancePath.
C22_AdditionalPropertyKey ==
  (AdditionalLocated
     /\ KeysNamed(located.text, located.error.params.additionalProperty) # {}) =>
    /\ located.range =
         <<FirstKeyNamed(located.text, located.error.params.additionalProperty).range>>
    /\ Covered(located.text, located.range[1]) = located.error.params.additionalProperty

\* the error has an instancePath that the navigation would resolve to the key
\* x of the second element, and the locator returned the key x of the first
C22_Witness ==
  /\ AdditionalLocated
  /\ located.text = DocArray
  /\ located.error.instancePath = <<"/", "1">>
  /\ located.range = <<[start |-> [line |-> 0, character |-> 12],
                        end |-> [line |-> 0, character |-> 13]]>>
  /\ findPropertyAtPath(located.text, <<"1">>) # <<>>
  /\ findPropertyAtPath(located.text, <<"1">>) # located.range

(***************************************************************************)
(* C23                                                                     *)
(***************************************************************************)
\* the objects of a text that have a "type" key with the string value s; in
\* the documents every string value of a "type" key is "s"
TypedObjects(text, s) ==
  IF s = <<"s">> THEN {o \in ObjectsOf(text) : o.type # <<>>} ELSE {}

\* the latest call of the locator was for a 'schema' error with an empty
\* instancePath and the identifier of the schema
SchemaLocated ==
  /\ located.called
  /\ located.error.keyword = "schema"
  /\ located.error.instancePath = <<>>
  /\ "schemaId" \in DOMAIN located.error.params

\* C23: for a 'schema' error with an empty instancePath and params.schemaId = s
\* the locator returns the range of the four characters of the "type" key of
\* the first "type": "s" of the text, not of its value, and none when the text
\* has no "type": "s".
C23_TypeKeyOfSchema ==
  SchemaLocated =>
    LET typed == TypedObjects(located.text, located.error.params.schemaId) IN
    IF typed = {}
    THEN located.range = <<>>
    ELSE /\ \E o \in typed :
              /\ located.range = o.type
              /\ \A other \in typed : NotAfter(o.type[1].start, other.type[1].start)
         /\ Covered(located.text, located.range[1]) = <<"t", "y", "p", "e">>

\* the key "type" of "type": "s" was found on the second line of a document,
\* and in a later call nothing was found for another identifier in that text
C23_Witness ==
  /\ SchemaLocated
  /\ located.text = DocObject
  /\ located.error.params.schemaId = <<"q">>
  /\ located.range = <<>>
  /\ first.called
  /\ first.error.keyword = "schema"
  /\ first.error.instancePath = <<>>
  /\ first.error.params.schemaId = <<"s">>
  /\ first.text = DocObject
  /\ first.range = <<[start |-> [line |-> 1, character |-> 2],
                      end |-> [line |-> 1, character |-> 6]]>>

(***************************************************************************)
(* C21                                                                     *)
(***************************************************************************)
\* the latest call of the locator ended in the navigation key by key
\* (findPropertyInText) and returned a range: an error of the generic
\* fallback whose instancePath ends with the name of a key
NavigatedByKeys ==
  /\ GenericLocated
  /\ located.range # <<>>
  /\ Segments(located.error.instancePath) # <<>>
  /\ ~IsIndex(LastSegment(located.error.instancePath))

\* C21: every range that the navigation key by key returns is in offsets of
\* the text of the document: the characters of the text between its start and
\* its end are the name of the key of the last segment, without the quotes,
\* whatever whitespace stands between the colon of a key and its object value
\* and at any depth.
C21_RangeCoversKeyName ==
  NavigatedByKeys =>
    Covered(located.text, located.range[1]) = LastSegment(located.error.instancePath)

(***************************************************************************)
(* C27                                                                     *)
(***************************************************************************)
\* the number of the objects that are elements of the root array of a text
ElementCount(text) == Cardinality({o \in SpansOf(text) : ElementPath(o.path)})

\* the scanners applied to the objects of a text: the N-th element of the
\* root array starts at the opening brace of the N-th element and there is no
\* element after the last, and the span of an object that is extracted from
\* its opening brace on ends at its closing brace
ScannersFollowStructure(text) ==
  /\ \A o \in SpansOf(text) :
       /\ findObjectTextAtPosition(text, o.start)
            = <<[text |-> Substring(text, o.start, o.end), startOffset |-> o.start]>>
       /\ findPropertyValueText(Substring(text, o.start, Len(text)))
            = <<Substring(text, o.start, o.end)>>
       /\ ElementPath(o.path) =>
            findNthObjectBracePosition(text, parseInt(Segments(o.path)[1]))
              = OneCharRange(text, o.start)
  /\ ElementCount(text) > 0 =>
       findNthObjectBracePosition(text, ElementCount(text)) = <<>>

\* the paths of DocNested whose keys come after the strings with braces and
\* a bracket, in an object that does not nest a key of that name before
AfterStrings == {<<"/", "1", "/", "x">>, <<"/", "0", "/", "a", "/", "x">>}

\* C27: the scanners of the locator follow the strings of the text: braces
\* and brackets inside a string, also after an escaped quote, do not change
\* the depth, so the elements of the root array are counted as they are, the
\* span of an object ends at its matching closing brace, and a key behind such
\* a string is found in its object.
C27_ScannersFollowStrings ==
  located.called =>
    /\ ScannersFollowStructure(located.text)
    /\ (GenericLocated /\ located.text = DocNested
          /\ located.error.instancePath \in AfterStrings) =>
         \A key \in KeysOf(located.text) :
           key.path = located.error.instancePath => located.range = <<key.range>>

\* the key x of the object a of element 0 was located: the string before it
\* in element 0 holds '}', an escaped quote and '{', the string before it in
\* a holds ']' and '}'
C27_Witness ==
  /\ GenericLocated
  /\ located.text = DocNested
  /\ located.error.instancePath = <<"/", "0", "/", "a", "/", "x">>
  /\ located.range = <<[start |-> [line |-> 0, character |-> 28],
                        end |-> [line |-> 0, character |-> 29]]>>
  /\ Substring(located.text, 6, 12) = <<Quote, "}", "\\", Quote, "{", Quote>>
  /\ Substring(located.text, 22, 26) = <<Quote, "]", "}", Quote>>

(***************************************************************************)
(* C31                                                                     *)
(***************************************************************************)
\* the calls of a caller that passes no path to setDefaultFile, or the key of
\* a registered file
NextRegisteredDefault ==
  \/ \E n \in 0..MaxBatch : IngestFiles(n)
  \/ \E path \in RealPaths, content \in DefaultContents : ProcessFile(path, content)
  \/ StartValidation
  \/ ValidateBegin
  \/ NextWave
  \/ Return
  \/ \E path \in RealPaths : InvalidateFile(path)
  \/ Reset
  \/ \E pathOrNull \in {Null, UndefinedPath} \cup {Str(p) : p \in MapKeys(jsonFiles)} :
       SetDefaultFile(pathOrNull)

SpecRegisteredDefault == Init /\ [][NextRegisteredDefault]_vars

\* C31: when setDefaultFile is only called without a path or with a key of
\* jsonFiles, then after every ingestFiles, invalidateFile and reset call a
\* default file path that is not null is a key of jsonFiles, and
\* getDefaultFile returns a file.
C31_DefaultIsRegistered ==
  (pc = "idle" /\ getDefaultFilePath(defaultFilePath) # Null) =>
    /\ MapHas(jsonFiles, defaultFilePath.value)
    /\ getDefaultFile(Registry, defaultFilePath) # <<>>

(***************************************************************************)
(* C32                                                                     *)
(***************************************************************************)
\* no call between the i-th and the j-th forced a retrieval for their key
NotForcedBetween(i, j) ==
  \A k \in (i + 1)..j :
    SameKey(fetchCalls[k].path, fetchCalls[i].path) => ~fetchCalls[k].force

\* the calls after the i-th that share its key and its cache entry
LaterCached(i) ==
  {j \in (i + 1)..Len(fetchCalls) :
     SameKey(fetchCalls[j].path, fetchCalls[i].path) /\ NotForcedBetween(i, j)}

\* C32: a failed retrieval stays in the fetch cache: a retrieval that fails
\* leaves the cache as it is, and the calls without force that follow a call
\* whose retrieval failed, for the same key and with no forced call for it in
\* between, start no retrieval and receive that failed promise; a reset empties
\* the cache.
C32_FailedRetrievalCached ==
  /\ [](\A i \in DOMAIN fetchCalls :
          retrievals[fetchCalls[i].promise].state = "rejected" =>
            /\ \A j \in LaterCached(i) :
                 /\ ~fetchCalls[j].started
                 /\ fetchCalls[j].promise = fetchCalls[i].promise
            /\ NotForcedBetween(i, Len(fetchCalls)) =>
                 MapGet(fetchCache, fetchKey(fetchCalls[i].path)) = fetchCalls[i].promise)
  /\ [][(\E i \in DOMAIN retrievals :
           /\ retrievals[i].state = "pending"
           /\ i \in DOMAIN retrievals'
           /\ retrievals'[i].state = "rejected") => fetchCache' = fetchCache]_vars
  /\ [][Reset => fetchCache' = <<>>]_vars

\* the retrieval of 'a/b' failed and two later calls without force, for 'a/b'
\* and for '/a/b', received the failed promise; no second retrieval started
C32_Witness ==
  /\ Len(fetchCalls) = 3
  /\ Len(retrievals) = 1
  /\ retrievals[1].state = "rejected"
  /\ fetchCalls[1].started
  /\ \A j \in {2, 3} : ~fetchCalls[j].force /\ fetchCalls[j].promise = 1
  /\ fetchCalls[2].path # fetchCalls[3].path
  /\ MapGet(fetchCache, <<"/", "a", "/", "b">>) = 1

(***************************************************************************)
(* C33                                                                     *)
(***************************************************************************)
\* the call for the open document that started last
LastStarted == openCalls[Len(openCalls)]

\* two or more calls have completed, and the last started while an earlier one
\* was suspended in ingestFiles
OverlapCompleted ==
  /\ Len(openCalls) >= 2
  /\ \A i \in DOMAIN openCalls : openCalls[i].stage = "done"
  /\ LastStarted.overlaps

\* C33: when validateOpenDocument calls for one document overlap, the
\* diagnostics of the document after all of them completed are those of the
\* call that started last: one for each of the errors that it collected, each
\* located in the text that the call read and computed its errors from, and
\* none when it collected no error.
C33_LastStartedWins ==
  OverlapCompleted =>
    IF LastStarted.errors = <<>>
    THEN ~MapHas(diagnostics, OpenUri)
    ELSE /\ MapHas(diagnostics, OpenUri)
         /\ MapGet(diagnostics, OpenUri)
              = ExpectedDiagnostics(LastStarted.errors, LastStarted.text)

(***************************************************************************)
(* C34                                                                     *)
(***************************************************************************)
\* C34: the key that the navigation by instancePath selects for a key segment
\* is a property of the object in scope at that step: a range that it returns
\* on a key of the text is on the key that instancePath addresses, never on a
\* key of that name of an object nested more deeply and written before it.
C34_KeyOfObjectInScope ==
  NavigatedByKeys =>
    \A key \in KeysOf(located.text) :
      located.range = <<key.range>> => key.path = located.error.instancePath

(***************************************************************************)
(* C35                                                                     *)
(***************************************************************************)
\* the index that an instancePath starts with
LeadingIndex(instancePath) == parseInt(Segments(instancePath)[1])

\* C35: for a root array and a path that starts with the index N, the
\* listSequence of the entity, the locator selects the element at index N of
\* the array, also when elements before it are no objects: a 'required' error
\* at '/N' is located at the opening brace of element N, an error of the
\* generic fallback at '/N/k' at the key k of element N, and
\* findNthObjectBracePosition and findNthObjectInArray select the same object.
C35_ElementAtListSequence ==
  located.called =>
    /\ \A o \in ObjectsOf(located.text) :
         ElementPath(o.path) =>
           /\ findNthObjectBracePosition(located.text, LeadingIndex(o.path))
                = CharacterAt(o.brace)
           /\ findNthObjectInArray(located.text, LeadingIndex(o.path), TRUE)
                = CharacterAt(o.brace)
           /\ (RequiredLocated /\ located.error.instancePath = o.path) =>
                located.range = CharacterAt(o.brace)
    /\ (GenericLocated /\ ElementKeyPath(located.error.instancePath)) =>
         \A key \in KeysOf(located.text) :
           key.path = located.error.instancePath => located.range = <<key.range>>

====
